---- MODULE Spec2Model ----
(***************************************************************************)
(* MiniLang compiler: lexer, parser, semantic analyzer with symbol table,  *)
(* three-address code generator and the pipeline driver.                   *)
(*                                                                         *)
(* Conventions.  A Python str is a sequence of one-character strings       *)
(* ("var" is <<"v","a","r">>).  Python None in a str-typed slot is the     *)
(* value None below, which no str equals (its only element is not one      *)
(* character long).  A raised exception is a status field naming the       *)
(* exception class.  In a diagnostic message each literal piece of the     *)
(* format string is one element and each formatted value is spelled out    *)
(* character by character.                                                 *)
(***************************************************************************)
EXTENDS Integers, Sequences, FiniteSets, TLC

VARIABLES lexer, parser, analyzer, generator, compiler, hist

vars == <<lexer, parser, analyzer, generator, compiler, hist>>

None == <<"None">>

\* An object that the specification at hand does not construct.
Absent == [status |-> "absent"]

Front(s) == SubSeq(s, 1, Len(s) - 1)

Last(s) == s[Len(s)]

RECURSIVE SeqsOfLen(_, _)
SeqsOfLen(S, n) ==
    IF n = 0 THEN {<<>>}
    ELSE {Append(s, c) : s \in SeqsOfLen(S, n - 1), c \in S}

SeqsUpTo(S, n) == UNION {SeqsOfLen(S, k) : k \in 0..n}

(***************************************************************************)
(* Python's str predicates and conversions used by the lexer               *)
(***************************************************************************)
AsciiDigits == {"0", "1", "2", "3", "4", "5", "6", "7", "8", "9"}

\* str.isdigit() is also true of digits that int() and float() reject.
NonDecimalDigits == {"²"}

AsciiLetters ==
    {"a", "b", "c", "d", "e", "f", "h", "i", "l", "n", "p", "r", "s", "t",
     "v", "w", "x", "y", "z", "A", "F", "I", "L", "V"}

\* str.isalpha() is true of every Unicode letter.
NonAsciiLetters == {"é"}

isdigit(c) == c \in AsciiDigits \cup NonDecimalDigits

isalpha(c) == c \in AsciiLetters \cup NonAsciiLetters

isalnum(c) == isalpha(c) \/ isdigit(c)

DigitValue ==
    "0" :> 0 @@ "1" :> 1 @@ "2" :> 2 @@ "3" :> 3 @@ "4" :> 4 @@
    "5" :> 5 @@ "6" :> 6 @@ "7" :> 7 @@ "8" :> 8 @@ "9" :> 9

DigitChar == <<"0", "1", "2", "3", "4", "5", "6", "7", "8", "9">>

RECURSIVE DecimalValue(_)
DecimalValue(s) ==
    IF s = <<>> THEN 0 ELSE DecimalValue(Front(s)) * 10 + DigitValue[Last(s)]

RECURSIVE StripTrailingZeros(_)
StripTrailingZeros(s) ==
    IF s # <<>> /\ Last(s) = "0" THEN StripTrailingZeros(Front(s)) ELSE s

CountOf(c, s) == Cardinality({i \in 1..Len(s) : s[i] = c})

IndexOf(c, s) == CHOOSE i \in 1..Len(s) : s[i] = c /\ \A j \in 1..(i - 1) : s[j] # c

\* The values a Token or a NumberNode carries: None, a str, an int or a float.
\* A float is its integer part and its fraction digits without trailing zeros.
NoneValue == [tag |-> "None", text |-> <<>>, whole |-> 0, frac |-> <<>>]

StrValue(s) == [tag |-> "str", text |-> s, whole |-> 0, frac |-> <<>>]

IntValue(n) == [tag |-> "int", text |-> <<>>, whole |-> n, frac |-> <<>>]

FloatValue(n, f) == [tag |-> "float", text |-> <<>>, whole |-> n, frac |-> f]

\* int(num_str) for a lexeme without '.': [ok, value].
int(num_str) ==
    IF num_str # <<>> /\ \A i \in 1..Len(num_str) : num_str[i] \in AsciiDigits
    THEN [ok |-> TRUE, value |-> IntValue(DecimalValue(num_str))]
    ELSE [ok |-> FALSE, value |-> NoneValue]

\* float(num_str) for a lexeme of digits and dots that starts with a digit:
\* "3." and "3.14" convert, "3.14.5" raises ValueError.
float(num_str) ==
    IF /\ CountOf(".", num_str) = 1
       /\ \A i \in 1..Len(num_str) : num_str[i] \in AsciiDigits \cup {"."}
       /\ Len(num_str) > 1
    THEN LET dot == IndexOf(".", num_str)
         IN  [ok |-> TRUE,
              value |-> FloatValue(
                  DecimalValue(SubSeq(num_str, 1, dot - 1)),
                  StripTrailingZeros(SubSeq(num_str, dot + 1, Len(num_str))))]
    ELSE [ok |-> FALSE, value |-> NoneValue]

RECURSIVE DecimalText(_)
DecimalText(n) ==
    IF n < 10 THEN <<DigitChar[n + 1]>>
    ELSE DecimalText(n \div 10) \o <<DigitChar[(n % 10) + 1]>>

\* str(value) of an int or of a float in positional notation.
str(v) ==
    IF v.tag = "int" THEN DecimalText(v.whole)
    ELSE IF v.tag = "float"
    THEN DecimalText(v.whole) \o <<".">> \o (IF v.frac = <<>> THEN <<"0">> ELSE v.frac)
    ELSE IF v.tag = "str" THEN v.text
    ELSE <<"N", "o", "n", "e">>

(***************************************************************************)
(* lexico.py                                                               *)
(***************************************************************************)
Token(type, value, line, column) ==
    [type |-> type, value |-> value, line |-> line, column |-> column]

KEYWORDS ==
    <<"v", "a", "r">> :> "VAR" @@
    <<"i", "f">> :> "IF" @@
    <<"e", "l", "s", "e">> :> "ELSE" @@
    <<"w", "h", "i", "l", "e">> :> "WHILE" @@
    <<"p", "r", "i", "n", "t">> :> "PRINT"

single_char_tokens ==
    "+" :> "PLUS" @@ "-" :> "MINUS" @@ "*" :> "MULTIPLY" @@ "/" :> "DIVIDE" @@
    "=" :> "ASSIGN" @@ ";" :> "SEMICOLON" @@ "(" :> "LPAREN" @@ ")" :> "RPAREN" @@
    "{" :> "LBRACE" @@ "}" :> "RBRACE" @@ "<" :> "LESS_THAN" @@ ">" :> "GREATER_THAN"

two_char_tokens ==
    "=" :> "EQUAL" @@ "!" :> "NOT_EQUAL" @@ "<" :> "LESS_EQUAL" @@ ">" :> "GREATER_EQUAL"

NoChar == "None"

Lexer(source_code) ==
    [source_code |-> source_code, position |-> 0, line |-> 1, column |-> 1,
     tokens |-> <<>>, status |-> "constructed"]

current_char(l) ==
    IF l.position >= Len(l.source_code) THEN NoChar
    ELSE l.source_code[l.position + 1]

peek_char(l) ==
    IF l.position + 1 >= Len(l.source_code) THEN NoChar
    ELSE l.source_code[l.position + 2]

\* advance() without the column reset at a newline.
Lexer_advance_keeps_column(l) ==
    IF l.position < Len(l.source_code)
    THEN IF l.source_code[l.position + 1] = "\n"
         THEN [l EXCEPT !.line = @ + 1, !.column = @ + 1, !.position = @ + 1]
         ELSE [l EXCEPT !.column = @ + 1, !.position = @ + 1]
    ELSE l

Lexer_advance(l) ==
    IF l.position < Len(l.source_code)
    THEN IF l.source_code[l.position + 1] = "\n"
         THEN [l EXCEPT !.line = @ + 1, !.column = 1, !.position = @ + 1]
         ELSE [l EXCEPT !.column = @ + 1, !.position = @ + 1]
    ELSE l

RECURSIVE skip_whitespace(_)
skip_whitespace(l) ==
    IF current_char(l) # NoChar /\ current_char(l) \in {" ", "\t", "\r"}
    THEN skip_whitespace(Lexer_advance(l))
    ELSE l

RECURSIVE skip_comment_loop(_)
skip_comment_loop(l) ==
    IF current_char(l) # NoChar /\ current_char(l) # "\n"
    THEN skip_comment_loop(Lexer_advance(l))
    ELSE l

\* skip_comment() that passes the two slashes and leaves the rest of the line.
skip_comment_slashes_only(l) ==
    IF current_char(l) = "/" /\ peek_char(l) = "/"
    THEN Lexer_advance(Lexer_advance(l))
    ELSE l

skip_comment(l) ==
    IF current_char(l) = "/" /\ peek_char(l) = "/" THEN skip_comment_loop(l) ELSE l

\* The while loop of read_number: [lexer, num_str].
RECURSIVE read_number_loop(_, _)
read_number_loop(l, num_str) ==
    IF current_char(l) # NoChar /\ (isdigit(current_char(l)) \/ current_char(l) = ".")
    THEN read_number_loop(Lexer_advance(l), Append(num_str, current_char(l)))
    ELSE [lexer |-> l, num_str |-> num_str]

\* read_number: the lexer after the lexeme, with the NUMBER token appended by
\* tokenize, or with the ValueError that int() or float() raised.
read_number(l) ==
    LET r == read_number_loop(l, <<>>)
        conv == IF CountOf(".", r.num_str) > 0 THEN float(r.num_str) ELSE int(r.num_str)
    IN  IF conv.ok
        THEN [r.lexer EXCEPT
                 !.tokens = Append(@, Token("NUMBER", conv.value, l.line, l.column))]
        ELSE [r.lexer EXCEPT !.status = "ValueError"]

RECURSIVE read_identifier_loop(_, _)
read_identifier_loop(l, id_str) ==
    IF current_char(l) # NoChar /\ (isalnum(current_char(l)) \/ current_char(l) = "_")
    THEN read_identifier_loop(Lexer_advance(l), Append(id_str, current_char(l)))
    ELSE [lexer |-> l, id_str |-> id_str]

\* read_identifier() whose token takes the position the cursor has after the
\* lexeme.
read_identifier_end_position(l) ==
    LET r == read_identifier_loop(l, <<>>)
        token_type == IF r.id_str \in DOMAIN KEYWORDS THEN KEYWORDS[r.id_str]
                      ELSE "IDENTIFIER"
    IN  [r.lexer EXCEPT
            !.tokens = Append(@, Token(token_type, StrValue(r.id_str), r.lexer.line,
                                       r.lexer.column))]

read_identifier(l) ==
    LET r == read_identifier_loop(l, <<>>)
        token_type == IF r.id_str \in DOMAIN KEYWORDS THEN KEYWORDS[r.id_str]
                      ELSE "IDENTIFIER"
    IN  [r.lexer EXCEPT
            !.tokens = Append(@, Token(token_type, StrValue(r.id_str), l.line, l.column))]

\* The main loop's iteration with the one-character operators tried first.
tokenize_iteration_single_first(l) ==
    LET char == current_char(l)
        next_char == peek_char(l)
    IN  IF char \in {" ", "\t", "\r"} THEN skip_whitespace(l)
        ELSE IF char = "/" /\ next_char = "/" THEN skip_comment(l)
        ELSE IF char = "\n" THEN Lexer_advance(l)
        ELSE IF isdigit(char) THEN read_number(l)
        ELSE IF isalpha(char) \/ char = "_" THEN read_identifier(l)
        ELSE IF char \in DOMAIN single_char_tokens
        THEN Lexer_advance(
                 [l EXCEPT !.tokens = Append(@,
                     Token(single_char_tokens[char], StrValue(<<char>>),
                           l.line, l.column))])
        ELSE IF char \in DOMAIN two_char_tokens /\ next_char = "="
        THEN Lexer_advance(Lexer_advance(
                 [l EXCEPT !.tokens = Append(@,
                     Token(two_char_tokens[char], StrValue(<<char, "=">>),
                           l.line, l.column))]))
        ELSE [l EXCEPT !.status = "LexicalError"]

\* The main loop's iteration whose newline branch leaves the cursor where it is.
tokenize_iteration_newline_stays(l) ==
    LET char == current_char(l)
        next_char == peek_char(l)
    IN  IF char \in {" ", "\t", "\r"} THEN skip_whitespace(l)
        ELSE IF char = "/" /\ next_char = "/" THEN skip_comment(l)
        ELSE IF char = "\n" THEN l
        ELSE IF isdigit(char) THEN read_number(l)
        ELSE IF isalpha(char) \/ char = "_" THEN read_identifier(l)
        ELSE IF char \in DOMAIN two_char_tokens /\ next_char = "="
        THEN Lexer_advance(Lexer_advance(
                 [l EXCEPT !.tokens = Append(@,
                     Token(two_char_tokens[char], StrValue(<<char, "=">>),
                           l.line, l.column))]))
        ELSE IF char \in DOMAIN single_char_tokens
        THEN Lexer_advance(
                 [l EXCEPT !.tokens = Append(@,
                     Token(single_char_tokens[char], StrValue(<<char>>),
                           l.line, l.column))])
        ELSE [l EXCEPT !.status = "LexicalError"]

\* One iteration of the main loop of tokenize, entered with a current character.
tokenize_iteration(l) ==
    LET char == current_char(l)
        next_char == peek_char(l)
    IN  IF char \in {" ", "\t", "\r"} THEN skip_whitespace(l)
        ELSE IF char = "/" /\ next_char = "/" THEN skip_comment(l)
        ELSE IF char = "\n" THEN Lexer_advance(l)
        ELSE IF isdigit(char) THEN read_number(l)
        ELSE IF isalpha(char) \/ char = "_" THEN read_identifier(l)
        ELSE IF char \in DOMAIN two_char_tokens /\ next_char = "="
        THEN Lexer_advance(Lexer_advance(
                 [l EXCEPT !.tokens = Append(@,
                     Token(two_char_tokens[char], StrValue(<<char, "=">>),
                           l.line, l.column))]))
        ELSE IF char \in DOMAIN single_char_tokens
        THEN Lexer_advance(
                 [l EXCEPT !.tokens = Append(@,
                     Token(single_char_tokens[char], StrValue(<<char>>),
                           l.line, l.column))])
        ELSE [l EXCEPT !.status = "LexicalError"]

\* The exit of the main loop: the EOF token is appended and the list returned.
tokenize_return(l) ==
    [l EXCEPT !.tokens = Append(@, Token("EOF", NoneValue, l.line, l.column)),
              !.status = "returned"]

\* tokenize() entered: self.tokens = [].
tokenize_enter(l) == [l EXCEPT !.tokens = <<>>, !.status = "running"]

RECURSIVE tokenize_loop(_)
tokenize_loop(l) ==
    IF l.status # "running" THEN l
    ELSE IF current_char(l) = NoChar THEN tokenize_return(l)
    ELSE tokenize_loop(tokenize_iteration(l))

\* The whole call lexer.tokenize().
tokenize(l) == tokenize_loop(tokenize_enter(l))

(***************************************************************************)
(* sintactico.py                                                           *)
(***************************************************************************)
ProgramNode(statements) == [node |-> "ProgramNode", statements |-> statements]

VarDeclarationNode(identifier, line) ==
    [node |-> "VarDeclarationNode", identifier |-> identifier, line |-> line]

AssignmentNode(identifier, expression, line) ==
    [node |-> "AssignmentNode", identifier |-> identifier,
     expression |-> expression, line |-> line]

BinaryOpNode(operator, left, right, line) ==
    [node |-> "BinaryOpNode", operator |-> operator, left |-> left,
     right |-> right, line |-> line]

UnaryOpNode(operator, operand, line) ==
    [node |-> "UnaryOpNode", operator |-> operator, operand |-> operand, line |-> line]

NumberNode(value, line) == [node |-> "NumberNode", value |-> value, line |-> line]

IdentifierNode(name, line) == [node |-> "IdentifierNode", name |-> name, line |-> line]

IfNode(condition, then_block, else_block, line) ==
    [node |-> "IfNode", condition |-> condition, then_block |-> then_block,
     else_block |-> else_block, line |-> line]

WhileNode(condition, body, line) ==
    [node |-> "WhileNode", condition |-> condition, body |-> body, line |-> line]

PrintNode(expression, line) ==
    [node |-> "PrintNode", expression |-> expression, line |-> line]

\* None where a node, a statement list or a token is expected.
NoneNode == [node |-> "None"]

NoneBlock == <<NoneNode>>

NoneToken == [type |-> "None", value |-> NoneValue, line |-> 0, column |-> 0]

\* Python's truth value of an Optional[List]: None and [] are false.
Truthy(block) == block # NoneBlock /\ block # <<>>

Parser(tokens) ==
    [tokens |-> tokens, position |-> 0,
     current_token |-> IF tokens # <<>> THEN tokens[1] ELSE NoneToken,
     status |-> "constructed"]

Parser_advance(p) ==
    [p EXCEPT !.position = @ + 1,
              !.current_token = IF p.position + 1 < Len(p.tokens)
                                THEN p.tokens[p.position + 2]
                                ELSE NoneToken]

\* What a method hands back: the object after it, the value it returns and the
\* exception it raised ("none" when it returned).
Return(self, val) == [self |-> self, val |-> val, exc |-> "none"]

Raise(self, exc) == [self |-> self, val |-> NoneNode, exc |-> exc]

expect(p, token_type) ==
    IF p.current_token = NoneToken THEN Raise(p, "SyntaxError")
    ELSE IF p.current_token.type # token_type THEN Raise(p, "SyntaxError")
    ELSE Return(Parser_advance(p), p.current_token)

ComparisonTypes ==
    {"LESS_THAN", "GREATER_THAN", "LESS_EQUAL", "GREATER_EQUAL", "EQUAL", "NOT_EQUAL"}

RECURSIVE parse_statement(_), parse_if_statement(_), parse_while_statement(_),
          parse_block(_, _), parse_expression(_), parse_comparison(_),
          parse_comparison_loop(_, _), parse_term(_), parse_term_loop(_, _),
          parse_factor(_), parse_factor_loop(_, _), parse_unary(_), parse_primary(_)

\* Sequencing of two steps of a method: an exception raised by the first step
\* propagates, otherwise the rest of the method runs on what it returned.
Bind(r, K(_)) == IF r.exc # "none" THEN r ELSE K(r)

parse_primary(p) ==
    IF p.current_token = NoneToken THEN Raise(p, "AttributeError")
    ELSE IF p.current_token.type = "NUMBER"
    THEN Return(Parser_advance(p), NumberNode(p.current_token.value, p.current_token.line))
    ELSE IF p.current_token.type = "IDENTIFIER"
    THEN Return(Parser_advance(p),
                IdentifierNode(p.current_token.value.text, p.current_token.line))
    ELSE IF p.current_token.type = "LPAREN"
    THEN Bind(parse_expression(Parser_advance(p)), LAMBDA r :
         Bind(expect(r.self, "RPAREN"), LAMBDA e : Return(e.self, r.val)))
    ELSE Raise(p, "SyntaxError")

parse_unary(p) ==
    IF p.current_token # NoneToken /\ p.current_token.type \in {"PLUS", "MINUS"}
    THEN Bind(parse_unary(Parser_advance(p)), LAMBDA r :
             Return(r.self, UnaryOpNode(p.current_token.value.text, r.val, p.current_token.line)))
    ELSE parse_primary(p)

parse_factor_loop(p, node) ==
    IF p.current_token # NoneToken /\ p.current_token.type \in {"MULTIPLY", "DIVIDE"}
    THEN Bind(parse_unary(Parser_advance(p)), LAMBDA r :
             parse_factor_loop(
                      r.self, BinaryOpNode(p.current_token.value.text, node, r.val, p.current_token.line)))
    ELSE Return(p, node)

parse_factor(p) == Bind(parse_unary(p), LAMBDA r : parse_factor_loop(r.self, r.val))

\* The additive loop with the right operand parsed as a whole term, which
\* groups to the right.
parse_term_loop_right_assoc(p, node) ==
    IF p.current_token # NoneToken /\ p.current_token.type \in {"PLUS", "MINUS"}
    THEN Bind(parse_term(Parser_advance(p)), LAMBDA r :
             Return(r.self, BinaryOpNode(p.current_token.value.text, node, r.val,
                                      p.current_token.line)))
    ELSE Return(p, node)

parse_term_loop(p, node) ==
    IF p.current_token # NoneToken /\ p.current_token.type \in {"PLUS", "MINUS"}
    THEN Bind(parse_factor(Parser_advance(p)), LAMBDA r :
             parse_term_loop(
                      r.self, BinaryOpNode(p.current_token.value.text, node, r.val, p.current_token.line)))
    ELSE Return(p, node)

parse_term(p) == Bind(parse_factor(p), LAMBDA r : parse_term_loop(r.self, r.val))

parse_comparison_loop(p, node) ==
    IF p.current_token # NoneToken /\ p.current_token.type \in ComparisonTypes
    THEN Bind(parse_term(Parser_advance(p)), LAMBDA r :
             parse_comparison_loop(
                      r.self, BinaryOpNode(p.current_token.value.text, node, r.val, p.current_token.line)))
    ELSE Return(p, node)

parse_comparison(p) == Bind(parse_term(p), LAMBDA r : parse_comparison_loop(r.self, r.val))

parse_expression(p) == parse_comparison(p)

parse_var_declaration(p) ==
    Bind(expect(p, "VAR"), LAMBDA e1 :
    Bind(expect(e1.self, "IDENTIFIER"), LAMBDA identifier_token :
    Bind(expect(identifier_token.self, "SEMICOLON"), LAMBDA e3 :
    Return(e3.self, VarDeclarationNode(identifier_token.val.value.text,
                                    p.current_token.line)))))

parse_assignment(p) ==
    Bind(expect(p, "IDENTIFIER"), LAMBDA identifier_token :
    Bind(expect(identifier_token.self, "ASSIGN"), LAMBDA e2 :
    Bind(parse_expression(e2.self), LAMBDA expression :
    Bind(expect(expression.self, "SEMICOLON"), LAMBDA e3 :
    Return(e3.self, AssignmentNode(identifier_token.val.value.text, expression.val,
                                p.current_token.line))))))

parse_print_statement(p) ==
    Bind(expect(p, "PRINT"), LAMBDA e1 :
    Bind(expect(e1.self, "LPAREN"), LAMBDA e2 :
    Bind(parse_expression(e2.self), LAMBDA expression :
    Bind(expect(expression.self, "RPAREN"), LAMBDA e3 :
    Bind(expect(e3.self, "SEMICOLON"), LAMBDA e4 :
    Return(e4.self, PrintNode(expression.val, p.current_token.line)))))))

\* The statement loop of a block: statements up to the next RBRACE, then the
\* RBRACE itself.
parse_block(p, block) ==
    IF p.current_token # NoneToken /\ p.current_token.type # "RBRACE"
    THEN Bind(parse_statement(p), LAMBDA stmt : parse_block(stmt.self, Append(block, stmt.val)))
    ELSE Bind(expect(p, "RBRACE"), LAMBDA e : Return(e.self, block))

\* The else part of parse_if_statement: the else block, or None without one.
parse_else(p) ==
    IF p.current_token # NoneToken /\ p.current_token.type = "ELSE"
    THEN Bind(expect(Parser_advance(p), "LBRACE"), LAMBDA e1 : parse_block(e1.self, <<>>))
    ELSE Return(p, NoneBlock)

parse_if_statement(p) ==
    Bind(expect(p, "IF"), LAMBDA e1 :
    Bind(expect(e1.self, "LPAREN"), LAMBDA e2 :
    Bind(parse_expression(e2.self), LAMBDA condition :
    Bind(expect(condition.self, "RPAREN"), LAMBDA e3 :
    Bind(expect(e3.self, "LBRACE"), LAMBDA e4 :
    Bind(parse_block(e4.self, <<>>), LAMBDA then_block :
    Bind(parse_else(then_block.self), LAMBDA else_block :
    Return(else_block.self, IfNode(condition.val, then_block.val, else_block.val,
                                p.current_token.line)))))))))

parse_while_statement(p) ==
    Bind(expect(p, "WHILE"), LAMBDA e1 :
    Bind(expect(e1.self, "LPAREN"), LAMBDA e2 :
    Bind(parse_expression(e2.self), LAMBDA condition :
    Bind(expect(condition.self, "RPAREN"), LAMBDA e3 :
    Bind(expect(e3.self, "LBRACE"), LAMBDA e4 :
    Bind(parse_block(e4.self, <<>>), LAMBDA body :
    Return(body.self, WhileNode(condition.val, body.val, p.current_token.line))))))))

\* parse_statement() that passes over a token no statement starts with.
parse_statement_skips_unexpected(p) ==
    IF p.current_token = NoneToken THEN Raise(p, "AttributeError")
    ELSE IF p.current_token.type = "VAR" THEN parse_var_declaration(p)
    ELSE IF p.current_token.type = "IF" THEN parse_if_statement(p)
    ELSE IF p.current_token.type = "WHILE" THEN parse_while_statement(p)
    ELSE IF p.current_token.type = "PRINT" THEN parse_print_statement(p)
    ELSE IF p.current_token.type = "IDENTIFIER" THEN parse_assignment(p)
    ELSE Return(Parser_advance(p), NoneNode)

parse_statement(p) ==
    IF p.current_token = NoneToken THEN Raise(p, "AttributeError")
    ELSE IF p.current_token.type = "VAR" THEN parse_var_declaration(p)
    ELSE IF p.current_token.type = "IF" THEN parse_if_statement(p)
    ELSE IF p.current_token.type = "WHILE" THEN parse_while_statement(p)
    ELSE IF p.current_token.type = "PRINT" THEN parse_print_statement(p)
    ELSE IF p.current_token.type = "IDENTIFIER" THEN parse_assignment(p)
    ELSE Raise(p, "SyntaxError")

\* The statement loop of parse().
RECURSIVE parse_loop(_, _)
parse_loop(p, statements) ==
    IF p.current_token # NoneToken /\ p.current_token.type # "EOF"
    THEN Bind(parse_statement(p), LAMBDA stmt :
             parse_loop(stmt.self, Append(statements, stmt.val)))
    ELSE Return(p, ProgramNode(statements))

parse(p) == parse_loop(p, <<>>)

(***************************************************************************)
(* codigo_intermedio.py                                                    *)
(***************************************************************************)
ThreeAddressCode(op, arg1, arg2, result) ==
    [op |-> op, arg1 |-> arg1, arg2 |-> arg2, result |-> result]

ASSIGN == <<"A", "S", "S", "I", "G", "N">>

LABEL == <<"L", "A", "B", "E", "L">>

GOTO == <<"G", "O", "T", "O">>

IF_FALSE == <<"I", "F", "_", "F", "A", "L", "S", "E">>

IF_TRUE == <<"I", "F", "_", "T", "R", "U", "E">>

PRINT == <<"P", "R", "I", "N", "T">>

UNARY_MINUS == <<"U", "N", "A", "R", "Y", "_", "M", "I", "N", "U", "S">>

UNARY_PLUS == <<"U", "N", "A", "R", "Y", "_", "P", "L", "U", "S">>

IntermediateCodeGenerator == [code |-> <<>>, temp_counter |-> 0, label_counter |-> 0]

\* new_label() that hands out the current number without counting it.
new_label_no_increment(g) == Return(g, <<"L">> \o DecimalText(g.label_counter))

new_temp(g) ==
    Return([g EXCEPT !.temp_counter = @ + 1], <<"t">> \o DecimalText(g.temp_counter))

new_label(g) ==
    Return([g EXCEPT !.label_counter = @ + 1], <<"L">> \o DecimalText(g.label_counter))

emit(g, op, arg1, arg2, result) ==
    [g EXCEPT !.code = Append(@, ThreeAddressCode(op, arg1, arg2, result))]

RECURSIVE Gen_visit(_, _), Gen_visit_statements(_, _)

Gen_visit_ProgramNode(g, node) == Gen_visit_statements(g, node.statements)

Gen_visit_VarDeclarationNode(g, node) == Return(g, None)

Gen_visit_AssignmentNode(g, node) ==
    Bind(Gen_visit(g, node.expression), LAMBDA expr_result :
    Return(emit(expr_result.self, ASSIGN, expr_result.val, None, node.identifier), None))

\* visit_BinaryOpNode that lowers the right operand before the left one.
Gen_visit_BinaryOpNode_right_first(g, node) ==
    Bind(Gen_visit(g, node.right), LAMBDA right_result :
    Bind(Gen_visit(right_result.self, node.left), LAMBDA left_result :
    Bind(new_temp(left_result.self), LAMBDA temp :
    Return(emit(temp.self, node.operator, left_result.val, right_result.val, temp.val),
           temp.val))))

\* visit_BinaryOpNode that hands back its left operand instead of its
\* temporary.
Gen_visit_BinaryOpNode_returns_left(g, node) ==
    Bind(Gen_visit(g, node.left), LAMBDA left_result :
    Bind(Gen_visit(left_result.self, node.right), LAMBDA right_result :
    Bind(new_temp(right_result.self), LAMBDA temp :
    Return(emit(temp.self, node.operator, left_result.val, right_result.val, temp.val),
           left_result.val))))

Gen_visit_BinaryOpNode(g, node) ==
    Bind(Gen_visit(g, node.left), LAMBDA left_result :
    Bind(Gen_visit(left_result.self, node.right), LAMBDA right_result :
    Bind(new_temp(right_result.self), LAMBDA temp :
    Return(emit(temp.self, node.operator, left_result.val, right_result.val, temp.val),
           temp.val))))

Gen_visit_UnaryOpNode(g, node) ==
    Bind(Gen_visit(g, node.operand), LAMBDA operand_result :
    Bind(new_temp(operand_result.self), LAMBDA temp :
    Return(IF node.operator = <<"-">>
           THEN emit(temp.self, UNARY_MINUS, operand_result.val, None, temp.val)
           ELSE IF node.operator = <<"+">>
           THEN emit(temp.self, UNARY_PLUS, operand_result.val, None, temp.val)
           ELSE temp.self,
           temp.val)))

Gen_visit_NumberNode(g, node) == Return(g, str(node.value))

Gen_visit_IdentifierNode(g, node) == Return(g, node.name)

\* visit_IfNode that leaves out the GOTO when there is nothing to jump over.
Gen_visit_IfNode_no_goto_without_else(g, node) ==
    Bind(Gen_visit(g, node.condition), LAMBDA condition_result :
    Bind(new_label(condition_result.self), LAMBDA label_else :
    Bind(new_label(label_else.self), LAMBDA label_end :
    Bind(Gen_visit_statements(
             emit(label_end.self, IF_FALSE, condition_result.val, None, label_else.val),
             node.then_block), LAMBDA then_done :
    Bind(IF Truthy(node.else_block)
         THEN Gen_visit_statements(
                  emit(emit(then_done.self, GOTO, None, None, label_end.val),
                       LABEL, None, None, label_else.val),
                  node.else_block)
         ELSE Return(emit(then_done.self, LABEL, None, None, label_else.val), None),
         LAMBDA else_done :
    Return(emit(else_done.self, LABEL, None, None, label_end.val), None))))))

Gen_visit_IfNode(g, node) ==
    Bind(Gen_visit(g, node.condition), LAMBDA condition_result :
    Bind(new_label(condition_result.self), LAMBDA label_else :
    Bind(new_label(label_else.self), LAMBDA label_end :
    Bind(Gen_visit_statements(
             emit(label_end.self, IF_FALSE, condition_result.val, None, label_else.val),
             node.then_block), LAMBDA then_done :
    Bind(LET at_else == emit(emit(then_done.self, GOTO, None, None, label_end.val),
                             LABEL, None, None, label_else.val)
         IN  IF Truthy(node.else_block)
             THEN Gen_visit_statements(at_else, node.else_block)
             ELSE Return(at_else, None),
         LAMBDA else_done :
    Return(emit(else_done.self, LABEL, None, None, label_end.val), None))))))

\* visit_WhileNode that allocates the end label before the start label.
Gen_visit_WhileNode_end_label_first(g, node) ==
    Bind(new_label(g), LAMBDA label_end :
    Bind(new_label(label_end.self), LAMBDA label_start :
    Bind(Gen_visit(emit(label_start.self, LABEL, None, None, label_start.val),
                   node.condition), LAMBDA condition_result :
    Bind(Gen_visit_statements(
             emit(condition_result.self, IF_FALSE, condition_result.val, None,
                  label_end.val),
             node.body), LAMBDA body_done :
    Return(emit(emit(body_done.self, GOTO, None, None, label_start.val),
                LABEL, None, None, label_end.val), None)))))

Gen_visit_WhileNode(g, node) ==
    Bind(new_label(g), LAMBDA label_start :
    Bind(new_label(label_start.self), LAMBDA label_end :
    Bind(Gen_visit(emit(label_end.self, LABEL, None, None, label_start.val),
                   node.condition), LAMBDA condition_result :
    Bind(Gen_visit_statements(
             emit(condition_result.self, IF_FALSE, condition_result.val, None,
                  label_end.val),
             node.body), LAMBDA body_done :
    Return(emit(emit(body_done.self, GOTO, None, None, label_start.val),
                LABEL, None, None, label_end.val), None)))))

Gen_visit_PrintNode(g, node) ==
    Bind(Gen_visit(g, node.expression), LAMBDA expr_result :
    Return(emit(expr_result.self, PRINT, expr_result.val, None, None), None))

\* generic_visit: a node class without a visit method.
Gen_generic_visit(g, node) == Raise(g, "Exception")

Gen_visit(g, node) ==
    IF node.node = "ProgramNode" THEN Gen_visit_ProgramNode(g, node)
    ELSE IF node.node = "VarDeclarationNode" THEN Gen_visit_VarDeclarationNode(g, node)
    ELSE IF node.node = "AssignmentNode" THEN Gen_visit_AssignmentNode(g, node)
    ELSE IF node.node = "BinaryOpNode" THEN Gen_visit_BinaryOpNode(g, node)
    ELSE IF node.node = "UnaryOpNode" THEN Gen_visit_UnaryOpNode(g, node)
    ELSE IF node.node = "NumberNode" THEN Gen_visit_NumberNode(g, node)
    ELSE IF node.node = "IdentifierNode" THEN Gen_visit_IdentifierNode(g, node)
    ELSE IF node.node = "IfNode" THEN Gen_visit_IfNode(g, node)
    ELSE IF node.node = "WhileNode" THEN Gen_visit_WhileNode(g, node)
    ELSE IF node.node = "PrintNode" THEN Gen_visit_PrintNode(g, node)
    ELSE Gen_generic_visit(g, node)

\* A for loop over statements, each visited in turn.
Gen_visit_statements(g, statements) ==
    IF statements = <<>> THEN Return(g, None)
    ELSE Bind(Gen_visit(g, Head(statements)), LAMBDA done :
             Gen_visit_statements(done.self, Tail(statements)))

\* generate() that keeps the counters of the previous call.
generate_without_reset(g, ast) ==
    Bind(Gen_visit([g EXCEPT !.code = <<>>], ast), LAMBDA done :
    Return(done.self, done.self.code))

generate(g, ast) ==
    Bind(Gen_visit([g EXCEPT !.code = <<>>, !.temp_counter = 0, !.label_counter = 0], ast),
         LAMBDA done :
    Return(done.self, done.self.code))

(***************************************************************************)
(* tabla_simbolos.py                                                       *)
(***************************************************************************)
SymbolType_VARIABLE == "VARIABLE"

NoType == "None"

Symbol(name, symbol_type, data_type, value, line, initialized, used) ==
    [name |-> name, symbol_type |-> symbol_type, data_type |-> data_type,
     value |-> value, line |-> line, initialized |-> initialized, used |-> used]

NoneSymbol == Symbol(None, "None", NoType, NoneValue, 0, FALSE, FALSE)

\* self.symbols is a dict, which keeps its keys in insertion order: the
\* symbols in that order, one per name.
SymbolTable == [symbols |-> <<>>, scopes |-> <<<<>>>>]

\* A raise with the exception's message.
RaiseText(self, exc, text) == [self |-> self, val |-> NoneNode, exc |-> exc, text |-> text]

KeyIndex(symbols, name) ==
    IF \E i \in 1..Len(symbols) : symbols[i].name = name
    THEN CHOOSE i \in 1..Len(symbols) : symbols[i].name = name
    ELSE 0

exists(t, name) == KeyIndex(t.symbols, name) # 0

lookup(t, name) ==
    IF exists(t, name) THEN t.symbols[KeyIndex(t.symbols, name)] ELSE NoneSymbol

\* self.symbols[name] = symbol
SetItem(symbols, name, symbol) ==
    IF KeyIndex(symbols, name) # 0
    THEN [symbols EXCEPT ![KeyIndex(symbols, name)] = symbol]
    ELSE Append(symbols, symbol)

NotDeclaredText(name) ==
    <<"Error semantico: Variable '">> \o name \o <<"' no declarada.">>

\* declare() that stores the new symbol before it reports the redeclaration.
declare_stores_before_check(t, name, symbol_type, line, data_type, value) ==
    LET symbol == Symbol(name, symbol_type, data_type, value, line, value # NoneValue, FALSE)
        stored == [t EXCEPT !.symbols = SetItem(@, name, symbol)]
    IN  IF exists(t, name)
        THEN RaiseText(stored, "Exception",
                 <<"Error semantico: Variable '">> \o name \o <<"' ya declarada en linea ">>
                     \o DecimalText(lookup(t, name).line) \o <<". ">>
                     \o <<"Redeclaracion en linea ">> \o DecimalText(line) \o <<".">>)
        ELSE Return(stored, symbol)

declare(t, name, symbol_type, line, data_type, value) ==
    IF exists(t, name)
    THEN LET existing_symbol == lookup(t, name)
         IN  RaiseText(t, "Exception",
                 <<"Error semantico: Variable '">> \o name \o <<"' ya declarada en linea ">>
                     \o DecimalText(existing_symbol.line) \o <<". ">>
                     \o <<"Redeclaracion en linea ">> \o DecimalText(line) \o <<".">>)
    ELSE LET symbol == Symbol(name, symbol_type, data_type, value, line,
                              value # NoneValue, FALSE)
         IN  Return([t EXCEPT !.symbols = SetItem(@, name, symbol)], symbol)

mark_as_used(t, name) ==
    IF ~exists(t, name) THEN RaiseText(t, "Exception", NotDeclaredText(name))
    ELSE Return([t EXCEPT !.symbols[KeyIndex(t.symbols, name)].used = TRUE], NoType)

\* mark_as_initialized() that stores a new symbol, initialized, in place of
\* the old one.
mark_as_initialized_replaces_symbol(t, name) ==
    IF ~exists(t, name) THEN RaiseText(t, "Exception", NotDeclaredText(name))
    ELSE Return([t EXCEPT !.symbols =
                     SetItem(@, name, Symbol(name, SymbolType_VARIABLE, NoType, NoneValue,
                                             lookup(t, name).line, TRUE, FALSE))], NoType)

mark_as_initialized(t, name) ==
    IF ~exists(t, name) THEN RaiseText(t, "Exception", NotDeclaredText(name))
    ELSE Return([t EXCEPT !.symbols[KeyIndex(t.symbols, name)].initialized = TRUE], NoType)

RECURSIVE get_warnings_loop(_, _)
get_warnings_loop(symbols, warnings) ==
    IF symbols = <<>> THEN warnings
    ELSE LET symbol == Head(symbols)
             w1 == IF ~symbol.used
                   THEN Append(warnings,
                            <<"Advertencia: Variable '">> \o symbol.name
                                \o <<"' declarada en linea ">> \o DecimalText(symbol.line)
                                \o <<" ">> \o <<"pero nunca usada.">>)
                   ELSE warnings
             w2 == IF symbol.used /\ ~symbol.initialized
                   THEN Append(w1,
                            <<"Advertencia: Variable '">> \o symbol.name
                                \o <<"' usada en el programa ">>
                                \o <<"pero podria no estar inicializada (declarada en linea ">>
                                \o DecimalText(symbol.line) \o <<").">>)
                   ELSE w1
         IN  get_warnings_loop(Tail(symbols), w2)

\* get_warnings() whose second test leaves out symbol.used.
RECURSIVE get_warnings_loop_uninitialized_alone(_, _)
get_warnings_loop_uninitialized_alone(symbols, warnings) ==
    IF symbols = <<>> THEN warnings
    ELSE LET symbol == Head(symbols)
             w1 == IF ~symbol.used
                   THEN Append(warnings,
                            <<"Advertencia: Variable '">> \o symbol.name
                                \o <<"' declarada en linea ">> \o DecimalText(symbol.line)
                                \o <<" ">> \o <<"pero nunca usada.">>)
                   ELSE warnings
             w2 == IF ~symbol.initialized
                   THEN Append(w1,
                            <<"Advertencia: Variable '">> \o symbol.name
                                \o <<"' usada en el programa ">>
                                \o <<"pero podria no estar inicializada (declarada en linea ">>
                                \o DecimalText(symbol.line) \o <<").">>)
                   ELSE w1
         IN  get_warnings_loop_uninitialized_alone(Tail(symbols), w2)

get_warnings_uninitialized_alone(t) ==
    get_warnings_loop_uninitialized_alone(t.symbols, <<>>)

get_warnings(t) == get_warnings_loop(t.symbols, <<>>)

(***************************************************************************)
(* semantico.py                                                            *)
(***************************************************************************)
SemanticAnalyzer == [symbol_table |-> SymbolTable, errors |-> <<>>, warnings |-> <<>>]

NumericOrUnknown == {"int", "float", NoType}

ArithmeticOperators == {<<"+">>, <<"-">>, <<"*">>, <<"/">>}

ComparisonOperators == {<<"=", "=">>, <<"!", "=">>, <<"<">>, <<">">>, <<"<", "=">>, <<">", "=">>}

LineText(line) == <<"Error semantico (linea ">> \o DecimalText(line) \o <<"): ">>

append_error(a, text) == [a EXCEPT !.errors = Append(@, text)]

RECURSIVE Sem_visit(_, _), Sem_visit_statements(_, _)

Sem_generic_visit(a, node) ==
    RaiseText(a, "Exception", <<"No existe metodo visit_">> \o <<node.node>>)

Sem_visit_ProgramNode(a, node) == Sem_visit_statements(a, node.statements)

Sem_visit_VarDeclarationNode(a, node) ==
    LET declared == declare(a.symbol_table, node.identifier, SymbolType_VARIABLE, node.line,
                            NoType, NoneValue)
    IN  IF declared.exc # "none"
        THEN Return(append_error([a EXCEPT !.symbol_table = declared.self], declared.text),
                    NoType)
        ELSE Return([a EXCEPT !.symbol_table = declared.self], NoType)

\* visit_AssignmentNode that marks the target initialized before it visits
\* the expression.
Sem_visit_AssignmentNode_marks_first(a, node) ==
    IF ~exists(a.symbol_table, node.identifier)
    THEN Return(append_error(a, LineText(node.line) \o <<"Variable '">> \o node.identifier
                                    \o <<"' no declarada.">>), NoType)
    ELSE Bind(mark_as_initialized(a.symbol_table, node.identifier), LAMBDA marked :
         Sem_visit([a EXCEPT !.symbol_table = marked.self], node.expression))

Sem_visit_AssignmentNode(a, node) ==
    IF ~exists(a.symbol_table, node.identifier)
    THEN Return(append_error(a, LineText(node.line) \o <<"Variable '">> \o node.identifier
                                    \o <<"' no declarada.">>), NoType)
    ELSE Bind(Sem_visit(a, node.expression), LAMBDA expr_type :
         Bind(mark_as_initialized(expr_type.self.symbol_table, node.identifier),
              LAMBDA marked :
         Return([expr_type.self EXCEPT !.symbol_table = marked.self], expr_type.val)))

\* visit_BinaryOpNode whose node in error keeps the type of its operator.
Sem_visit_BinaryOpNode_error_keeps_type(a, node) ==
    Bind(Sem_visit(a, node.left), LAMBDA left_type :
    Bind(Sem_visit(left_type.self, node.right), LAMBDA right_type :
    IF node.operator \in ArithmeticOperators
    THEN IF left_type.val \in NumericOrUnknown /\ right_type.val \in NumericOrUnknown
         THEN Return(right_type.self,
                     IF left_type.val = "float" \/ right_type.val = "float"
                     THEN "float" ELSE "int")
         ELSE Return(append_error(right_type.self,
                         LineText(node.line) \o <<"Operador '">> \o node.operator
                             \o <<"' requiere operandos numericos.">>), "int")
    ELSE IF node.operator \in ComparisonOperators
    THEN IF left_type.val \in NumericOrUnknown /\ right_type.val \in NumericOrUnknown
         THEN Return(right_type.self, "bool")
         ELSE Return(append_error(right_type.self,
                         LineText(node.line) \o <<"Operador '">> \o node.operator
                             \o <<"' requiere operandos comparables.">>), "bool")
    ELSE Return(right_type.self, NoType)))

Sem_visit_BinaryOpNode(a, node) ==
    Bind(Sem_visit(a, node.left), LAMBDA left_type :
    Bind(Sem_visit(left_type.self, node.right), LAMBDA right_type :
    IF node.operator \in ArithmeticOperators
    THEN IF left_type.val \in NumericOrUnknown /\ right_type.val \in NumericOrUnknown
         THEN Return(right_type.self,
                     IF left_type.val = "float" \/ right_type.val = "float"
                     THEN "float" ELSE "int")
         ELSE Return(append_error(right_type.self,
                         LineText(node.line) \o <<"Operador '">> \o node.operator
                             \o <<"' requiere operandos numericos.">>), NoType)
    ELSE IF node.operator \in ComparisonOperators
    THEN IF left_type.val \in NumericOrUnknown /\ right_type.val \in NumericOrUnknown
         THEN Return(right_type.self, "bool")
         ELSE Return(append_error(right_type.self,
                         LineText(node.line) \o <<"Operador '">> \o node.operator
                             \o <<"' requiere operandos comparables.">>), NoType)
    ELSE Return(right_type.self, NoType)))

Sem_visit_UnaryOpNode(a, node) ==
    Bind(Sem_visit(a, node.operand), LAMBDA operand_type :
    IF node.operator \in {<<"+">>, <<"-">>}
    THEN IF operand_type.val \in NumericOrUnknown
         THEN Return(operand_type.self, operand_type.val)
         ELSE Return(append_error(operand_type.self,
                         LineText(node.line) \o <<"Operador unario '">> \o node.operator
                             \o <<"' requiere operando numerico.">>), NoType)
    ELSE Return(operand_type.self, NoType))

Sem_visit_NumberNode(a, node) ==
    IF node.value.tag = "int" THEN Return(a, "int")
    ELSE IF node.value.tag = "float" THEN Return(a, "float")
    ELSE Return(a, NoType)

Sem_visit_IdentifierNode(a, node) ==
    IF ~exists(a.symbol_table, node.name)
    THEN Return(append_error(a, LineText(node.line) \o <<"Variable '">> \o node.name
                                    \o <<"' no declarada.">>), NoType)
    ELSE Bind(mark_as_used(a.symbol_table, node.name), LAMBDA marked :
         Return([a EXCEPT !.symbol_table = marked.self,
                          !.warnings =
                              IF ~lookup(marked.self, node.name).initialized
                              THEN Append(@, <<"Advertencia (linea ">>
                                                 \o DecimalText(node.line) \o <<"): ">>
                                                 \o <<"Variable '">> \o node.name
                                                 \o <<"' podria no estar inicializada.">>)
                              ELSE @],
                lookup(marked.self, node.name).data_type))

Sem_visit_IfNode(a, node) ==
    Bind(Sem_visit(a, node.condition), LAMBDA condition :
    Bind(Sem_visit_statements(condition.self, node.then_block), LAMBDA then_done :
    IF Truthy(node.else_block)
    THEN Sem_visit_statements(then_done.self, node.else_block)
    ELSE Return(then_done.self, NoType)))

Sem_visit_WhileNode(a, node) ==
    Bind(Sem_visit(a, node.condition), LAMBDA condition :
    Sem_visit_statements(condition.self, node.body))

Sem_visit_PrintNode(a, node) ==
    Bind(Sem_visit(a, node.expression), LAMBDA expression :
    Return(expression.self, NoType))

Sem_visit(a, node) ==
    IF node.node = "ProgramNode" THEN Sem_visit_ProgramNode(a, node)
    ELSE IF node.node = "VarDeclarationNode" THEN Sem_visit_VarDeclarationNode(a, node)
    ELSE IF node.node = "AssignmentNode" THEN Sem_visit_AssignmentNode(a, node)
    ELSE IF node.node = "BinaryOpNode" THEN Sem_visit_BinaryOpNode(a, node)
    ELSE IF node.node = "UnaryOpNode" THEN Sem_visit_UnaryOpNode(a, node)
    ELSE IF node.node = "NumberNode" THEN Sem_visit_NumberNode(a, node)
    ELSE IF node.node = "IdentifierNode" THEN Sem_visit_IdentifierNode(a, node)
    ELSE IF node.node = "IfNode" THEN Sem_visit_IfNode(a, node)
    ELSE IF node.node = "WhileNode" THEN Sem_visit_WhileNode(a, node)
    ELSE IF node.node = "PrintNode" THEN Sem_visit_PrintNode(a, node)
    ELSE Sem_generic_visit(a, node)

\* A for loop over statements, each visited in turn.
Sem_visit_statements(a, statements) ==
    IF statements = <<>> THEN Return(a, NoType)
    ELSE Bind(Sem_visit(a, Head(statements)), LAMBDA done :
             Sem_visit_statements(done.self, Tail(statements)))

RECURSIVE Join(_, _)
\* separator.join(texts)
Join(separator, texts) ==
    IF texts = <<>> THEN <<>>
    ELSE IF Len(texts) = 1 THEN texts[1]
    ELSE texts[1] \o separator \o Join(separator, Tail(texts))

\* analyze() that starts with a new symbol table as well.
analyze_enter_new_table(a) ==
    [a EXCEPT !.errors = <<>>, !.warnings = <<>>, !.symbol_table = SymbolTable]

\* analyze(), entry: the lists are emptied, the symbol table is kept.
analyze_enter(a) == [a EXCEPT !.errors = <<>>, !.warnings = <<>>]

\* analyze(), after self.visit(ast) returned or raised.
analyze_return(visited) ==
    IF visited.exc = "SemanticError" THEN visited
    ELSE IF visited.exc # "none"
    THEN RaiseText(visited.self, "SemanticError",
             <<"Error durante el analisis semantico: ">> \o visited.text)
    ELSE LET a == [visited.self EXCEPT
                       !.warnings = @ \o get_warnings(visited.self.symbol_table)]
         IN  IF a.errors # <<>>
             THEN RaiseText(a, "SemanticError",
                      <<"Se encontraron errores semanticos:\n">> \o Join(<<"\n">>, a.errors))
             ELSE Return(a, a.symbol_table)

analyze(a, ast) == analyze_return(Sem_visit(analyze_enter(a), ast))

(***************************************************************************)
(* compilador.py                                                           *)
(***************************************************************************)
\* None in the symbol_table slot.
NoneTable == [table |-> "None"]

Compiler ==
    [source_code |-> <<>>, tokens |-> <<>>, ast |-> NoneNode, symbol_table |-> NoneTable,
     intermediate_code |-> <<>>]

\* The heading the except clause that catches exc prints.
except_clause(exc) ==
    IF exc = "LexicalError" THEN "ERROR LEXICO"
    ELSE IF exc = "SyntaxError" THEN "ERROR SINTACTICO"
    ELSE IF exc = "SemanticError" THEN "ERROR SEMANTICO"
    ELSE "ERROR INESPERADO"

\* compile() leaves through an except clause.
compile_except(r, exc) ==
    [r EXCEPT !.pc = "done", !.val = "False", !.report = except_clause(exc)]

\* compile(), entry: a call in progress is the Compiler, the stage about to
\* start, the local lexer, parser, analyzer and generator, and what the call
\* returns and prints.
compile_enter(c, source_code, verbose) ==
    [self |-> [c EXCEPT !.source_code = source_code], pc |-> "lexer", verbose |-> verbose,
     lexer |-> Absent, parser |-> Absent, analyzer |-> Absent, generator |-> Absent,
     val |-> "None", report |-> ""]

compile_lexer(r) ==
    LET tokenized == tokenize(Lexer(r.self.source_code))
    IN  IF tokenized.status = "returned"
        THEN [r EXCEPT !.lexer = tokenized, !.self.tokens = tokenized.tokens,
                       !.pc = "parser"]
        ELSE compile_except([r EXCEPT !.lexer = tokenized], tokenized.status)

compile_parser(r) ==
    LET parsed == parse(Parser(r.self.tokens))
    IN  IF parsed.exc = "none"
        THEN [r EXCEPT !.parser = parsed, !.self.ast = parsed.val, !.pc = "analyzer"]
        ELSE compile_except([r EXCEPT !.parser = parsed], parsed.exc)

compile_analyzer(r) ==
    LET analyzed == analyze(SemanticAnalyzer, r.self.ast)
    IN  IF analyzed.exc = "none"
        THEN [r EXCEPT !.analyzer = analyzed, !.self.symbol_table = analyzed.val,
                       !.pc = "generator"]
        ELSE compile_except([r EXCEPT !.analyzer = analyzed], analyzed.exc)

compile_generator(r) ==
    LET generated == generate(IntermediateCodeGenerator, r.self.ast)
    IN  IF generated.exc = "none"
        THEN [r EXCEPT !.generator = generated, !.self.intermediate_code = generated.val,
                       !.pc = "done", !.val = "True",
                       !.report = IF r.verbose THEN "COMPILACION EXITOSA" ELSE ""]
        ELSE compile_except([r EXCEPT !.generator = generated], generated.exc)

compile_stage(r) ==
    IF r.pc = "lexer" THEN compile_lexer(r)
    ELSE IF r.pc = "parser" THEN compile_parser(r)
    ELSE IF r.pc = "analyzer" THEN compile_analyzer(r)
    ELSE IF r.pc = "generator" THEN compile_generator(r)
    ELSE r

RECURSIVE compile_run(_)
compile_run(r) == IF r.pc = "done" THEN r ELSE compile_run(compile_stage(r))

\* The whole call compiler.compile(source_code, verbose).
compile(c, source_code, verbose) == compile_run(compile_enter(c, source_code, verbose))

(***************************************************************************)
(* Lexer runs: a Lexer is constructed on a source and tokenize() is run    *)
(* one main-loop iteration at a time.                                      *)
(***************************************************************************)
MaxSrcLen == 4

WordAlphabet == {"3", ".", "a", " ", "\n"}

OperatorAlphabet == {"=", "!", "<", ">", "/", "\n"}

LexExamples ==
    {<<"3", ".", "1", "4", ".", "5">>,
     <<"3", ".">>,
     <<"3", ".", "1", "4">>,
     <<"0", "3", ".", "1", "0", ";">>,
     <<"x", "=", "3", ".", ";", "\n">>,
     <<"=", " ", "=">>,
     <<"!", " ", "=">>,
     <<"<", "\t", "=">>,
     <<">", "\r", "=">>,
     <<"a", ">", "=", "=", "3">>,
     <<"a", "!", "=", "!", "3">>,
     <<"é">>,
     <<"x", "é", " ", "=">>,
     <<"V", "a", "r", " ", "I", "F">>,
     <<"v", "a", "r", " ", "i", "f">>,
     <<"a", "_", "1", " ", "_", "b">>,
     <<"x", "@">>}

LexSources ==
    SeqsUpTo(WordAlphabet, MaxSrcLen) \cup SeqsUpTo(OperatorAlphabet, MaxSrcLen)
        \cup LexExamples

LexInit ==
    /\ lexer \in {Lexer(src) : src \in LexSources}
    /\ parser = Absent
    /\ analyzer = Absent
    /\ generator = Absent
    /\ compiler = Absent
    /\ hist = <<>>

LexEnter ==
    /\ lexer.status = "constructed"
    /\ lexer' = tokenize_enter(lexer)
    /\ UNCHANGED <<parser, analyzer, generator, compiler, hist>>

LexIteration ==
    /\ lexer.status = "running"
    /\ current_char(lexer) # NoChar
    /\ lexer' = tokenize_iteration(lexer)
    /\ UNCHANGED <<parser, analyzer, generator, compiler, hist>>

LexReturn ==
    /\ lexer.status = "running"
    /\ current_char(lexer) = NoChar
    /\ lexer' = tokenize_return(lexer)
    /\ UNCHANGED <<parser, analyzer, generator, compiler, hist>>

LexNext == LexEnter \/ LexIteration \/ LexReturn

SpecLex == LexInit /\ [][LexNext]_vars

LexFinished == lexer.status \in {"returned", "LexicalError", "ValueError"}

\* The cursor position after the last character of a source, counted from the text.
EndLine(src) == 1 + CountOf("\n", src)

EndColumn(src) ==
    LET nl == {i \in 1..Len(src) : src[i] = "\n"}
        last == IF nl = {} THEN 0 ELSE CHOOSE i \in nl : \A j \in nl : j <= i
    IN  1 + Len(src) - last

\* C7: every token list tokenize() returns holds exactly one EOF token, as its
\* last element, positioned at the cursor after the last character of the input.
C7_ExactlyOneEOFAtEnd ==
    lexer.status = "returned" =>
        LET t == lexer.tokens
            n == Len(lexer.tokens)
        IN  /\ n >= 1
            /\ t[n].type = "EOF"
            /\ \A i \in 1..(n - 1) : t[i].type # "EOF"
            /\ t[n].line = EndLine(lexer.source_code)
            /\ t[n].column = EndColumn(lexer.source_code)

C7_Witness ==
    /\ lexer.status = "returned"
    /\ Len(lexer.tokens) >= 3
    /\ CountOf("\n", lexer.source_code) >= 1
    /\ Last(lexer.source_code) # "\n"

\* The numeric lexeme a source starts with: its longest prefix of digits and dots.
RECURSIVE NumericPrefix(_)
NumericPrefix(src) ==
    IF src # <<>> /\ src[1] \in AsciiDigits \cup {"."}
    THEN <<src[1]>> \o NumericPrefix(Tail(src))
    ELSE <<>>

StartsWithMalformedNumber(src) ==
    /\ src # <<>>
    /\ src[1] \in AsciiDigits
    /\ \/ CountOf(".", NumericPrefix(src)) > 1
       \/ Last(NumericPrefix(src)) = "."

\* C8: a numeric lexeme with more than one '.', or ending in '.', makes
\* tokenize() raise LexicalError and yields no NUMBER token.
C8_MalformedNumberRaisesLexicalError ==
    StartsWithMalformedNumber(lexer.source_code) =>
        /\ LexFinished => lexer.status = "LexicalError"
        /\ \A i \in 1..Len(lexer.tokens) : lexer.tokens[i].type # "NUMBER"

(***************************************************************************)
(* Parser runs: a source is tokenized, a Parser is constructed on the      *)
(* tokens, and parse_expression() or parse() is called on it.              *)
(***************************************************************************)
MaxParseOps == 2

Ident(c) == IdentifierNode(<<c>>, 1)

Num(n) == NumberNode(IntValue(n), 1)

Bin(op, l, r) == BinaryOpNode(op, l, r, 1)

Neg(e) == UnaryOpNode(<<"-">>, e, 1)

ParseLeaves == {Ident("a"), Num(1)}

ParseBinaryOperators == {<<"<">>, <<"+">>, <<"-">>, <<"*">>}

\* The expression trees with exactly k operator nodes.
RECURSIVE ParseTrees(_)
ParseTrees(k) ==
    IF k = 0 THEN ParseLeaves
    ELSE {Neg(e) : e \in ParseTrees(k - 1)}
         \cup UNION {{Bin(op, l, r) : op \in ParseBinaryOperators,
                                      l \in ParseTrees(i),
                                      r \in ParseTrees(k - 1 - i)} : i \in 0..(k - 1)}

\* The binding strength the grammar gives a node: comparison 1, additive 2,
\* multiplicative 3, unary 4, primary 5.
BindingLevel(e) ==
    IF e.node = "BinaryOpNode"
    THEN IF e.operator \in {<<"+">>, <<"-">>} THEN 2
         ELSE IF e.operator \in {<<"*">>, <<"/">>} THEN 3
         ELSE 1
    ELSE IF e.node = "UnaryOpNode" THEN 4
    ELSE 5

Parenthesized(text) == <<"(">> \o text \o <<")">>

\* The text of a tree with the parentheses that left-associative binary
\* operators and the precedence order make necessary, and no others.
RECURSIVE TextOf(_)
TextOf(e) ==
    IF e.node = "BinaryOpNode"
    THEN (IF BindingLevel(e.left) < BindingLevel(e)
          THEN Parenthesized(TextOf(e.left)) ELSE TextOf(e.left))
         \o e.operator \o
         (IF BindingLevel(e.right) <= BindingLevel(e)
          THEN Parenthesized(TextOf(e.right)) ELSE TextOf(e.right))
    ELSE IF e.node = "UnaryOpNode"
    THEN e.operator \o
         (IF BindingLevel(e.operand) < BindingLevel(e)
          THEN Parenthesized(TextOf(e.operand)) ELSE TextOf(e.operand))
    ELSE IF e.node = "NumberNode" THEN str(e.value)
    ELSE e.name

\* Sources written out, each with the tree the grammar gives it.
ParseExamples ==
    {[src |-> <<"a", " ", "-", " ", "b", " ", "-", " ", "c">>,
      tree |-> Bin(<<"-">>, Bin(<<"-">>, Ident("a"), Ident("b")), Ident("c"))],
     [src |-> <<"a", " ", "+", " ", "b", " ", "*", " ", "c">>,
      tree |-> Bin(<<"+">>, Ident("a"), Bin(<<"*">>, Ident("b"), Ident("c")))],
     [src |-> <<"-", "(", "a", " ", "+", " ", "b", ")", " ", "*", " ", "c">>,
      tree |-> Bin(<<"*">>, Neg(Bin(<<"+">>, Ident("a"), Ident("b"))), Ident("c"))],
     [src |-> <<"a", " ", "<", " ", "b", " ", "+", " ", "c">>,
      tree |-> Bin(<<"<">>, Ident("a"), Bin(<<"+">>, Ident("b"), Ident("c")))],
     [src |-> <<"a", "<", "=", "b", "=", "=", "c">>,
      tree |-> Bin(<<"=", "=">>, Bin(<<"<", "=">>, Ident("a"), Ident("b")), Ident("c"))],
     [src |-> <<"-", "-", "a", "/", "+", "2", ".", "5">>,
      tree |-> Bin(<<"/">>, Neg(Neg(Ident("a"))),
                   UnaryOpNode(<<"+">>, NumberNode(FloatValue(2, <<"5">>), 1), 1))]}

\* Sources that are no expression.
ParseErrorExamples ==
    {<<"a", "-">>, <<"(", "a">>, <<"a", "b">>, <<")">>, <<>>, <<"a", "-", "*", "b">>}

ParseInputs ==
    {[src |-> TextOf(e), tree |-> e] : e \in UNION {ParseTrees(k) : k \in 0..MaxParseOps}}
        \cup ParseExamples
        \cup {[src |-> src, tree |-> NoneNode] : src \in ParseErrorExamples}

\* The statement "x = <expression>;" around an expression source.
AsAssignment(src) == <<"x", "=">> \o src \o <<";">>

ParserRun(tokens) ==
    [self |-> Parser(tokens), call |-> "none", exc |-> "none", val |-> NoneNode]

ParseInit ==
    /\ \E input \in ParseInputs, wrapped \in BOOLEAN :
           /\ hist = [src |-> input.src, tree |-> input.tree, wrapped |-> wrapped]
           /\ lexer = tokenize(Lexer(IF wrapped THEN AsAssignment(input.src)
                                     ELSE input.src))
    /\ lexer.status = "returned"
    /\ parser = ParserRun(lexer.tokens)
    /\ analyzer = Absent
    /\ generator = Absent
    /\ compiler = Absent

ParseExpressionCall ==
    /\ parser.call = "none"
    /\ LET r == parse_expression(parser.self)
       IN  parser' = [self |-> r.self, call |-> "parse_expression", exc |-> r.exc, val |-> r.val]
    /\ UNCHANGED <<lexer, analyzer, generator, compiler, hist>>

ParseCall ==
    /\ parser.call = "none"
    /\ LET r == parse(parser.self)
       IN  parser' = [self |-> r.self, call |-> "parse", exc |-> r.exc, val |-> r.val]
    /\ UNCHANGED <<lexer, analyzer, generator, compiler, hist>>

ParseNext == ParseExpressionCall \/ ParseCall

SpecParse == ParseInit /\ [][ParseNext]_vars

\* C6: parse_expression() builds the tree of the precedence order comparison,
\* additive, multiplicative, unary, primary with left-associative binary
\* operators and right-nesting unary operators: on the text of a tree, written
\* with only the parentheses that order requires, it returns that tree (also as
\* the right-hand side of an assignment parsed by parse()).
C6_PrecedenceAndAssociativity ==
    hist.tree # NoneNode =>
        /\ (parser.call = "parse_expression" /\ ~hist.wrapped) =>
               /\ parser.exc = "none"
               /\ parser.val = hist.tree
               /\ parser.self.current_token.type = "EOF"
        /\ (parser.call = "parse" /\ hist.wrapped) =>
               /\ parser.exc = "none"
               /\ parser.val =
                      ProgramNode(<<AssignmentNode(<<"x">>, hist.tree, 1)>>)

C6_Witness ==
    /\ parser.call = "parse_expression"
    /\ ~hist.wrapped
    /\ hist.src = <<"-", "(", "a", " ", "+", " ", "b", ")", " ", "*", " ", "c">>
    /\ parser.val = Bin(<<"*">>, Neg(Bin(<<"+">>, Ident("a"), Ident("b"))), Ident("c"))

(***************************************************************************)
(* Generator runs: generate() is called on one IntermediateCodeGenerator,  *)
(* once or several times, each time on an AST.                             *)
(***************************************************************************)
MaxGenOps == 3

MaxNest == 2

MaxCalls == 2

GenLeaves == {Ident("a"), Num(1)}

\* The expression trees with exactly k operator nodes.
RECURSIVE GenTrees(_)
GenTrees(k) ==
    IF k = 0 THEN GenLeaves
    ELSE {Neg(e) : e \in GenTrees(k - 1)}
         \cup UNION {{Bin(<<"+">>, l, r) : l \in GenTrees(i), r \in GenTrees(k - 1 - i)} :
                     i \in 0..(k - 1)}

GenExpressions == UNION {GenTrees(k) : k \in 0..MaxGenOps}

GenCondition == Bin(<<"<">>, Ident("a"), Num(1))

GenSimpleStatements ==
    {VarDeclarationNode(<<"x">>, 1),
     AssignmentNode(<<"x">>, Bin(<<"+">>, Ident("a"), Num(1)), 1),
     PrintNode(Ident("a"), 1)}

\* Statements nested to depth d: an if or a while whose one block holds at most
\* one statement of depth d - 1, the other block of an if being shallow.
RECURSIVE GenStatements(_)
GenStatements(d) ==
    IF d = 0 THEN GenSimpleStatements
    ELSE LET inner == {<<>>} \cup {<<st>> : st \in GenStatements(d - 1)}
             shallow == {<<>>, <<PrintNode(Ident("a"), 1)>>}
         IN  GenSimpleStatements
             \cup {IfNode(GenCondition, t, e, 1) :
                       t \in inner, e \in {NoneBlock} \cup shallow}
             \cup {IfNode(GenCondition, t, e, 1) : t \in shallow, e \in inner}
             \cup {WhileNode(GenCondition, b, 1) : b \in inner}

\* Programs the specification's scenarios and the claims name.
GenExamples ==
    {ProgramNode(<<>>),
     ProgramNode(<<AssignmentNode(<<"a">>,
                       Bin(<<"*">>, Neg(Bin(<<"+">>, Num(1), Num(2))), Num(3)), 1)>>),
     ProgramNode(<<IfNode(Ident("a"), <<PrintNode(NumberNode(FloatValue(2, <<"5">>), 1), 1)>>,
                          NoneBlock, 1),
                   WhileNode(UnaryOpNode(<<"+">>, Ident("a"), 1), <<>>, 1)>>),
     ProgramNode(<<VarDeclarationNode(<<"x">>, 1),
                   AssignmentNode(<<"x">>,
                       Bin(<<"-">>, Bin(<<"+">>, Ident("a"), Num(1)), Neg(Ident("a"))), 1)>>),
     ProgramNode(<<IfNode(Bin(<<"<">>, Ident("a"), Bin(<<"+">>, Num(1), Neg(Ident("a")))),
                          <<AssignmentNode(<<"x">>, Bin(<<"+">>, Ident("a"), Num(1)), 1)>>,
                          NoneBlock, 1)>>)}

GenPrograms ==
    {ProgramNode(<<AssignmentNode(<<"x">>, e, 1)>>) : e \in GenExpressions}
        \cup {ProgramNode(<<PrintNode(e, 1)>>) : e \in GenExpressions}
        \cup {ProgramNode(<<st>>) : st \in GenStatements(MaxNest)}
        \cup {ProgramNode(<<s1, s2>>) : s1 \in GenStatements(1), s2 \in GenStatements(1)}
        \cup GenExamples

\* The programs generate() is called on again after a first call.
GenAgain == {ProgramNode(<<>>),
             ProgramNode(<<WhileNode(GenCondition, <<PrintNode(Neg(Ident("a")), 1)>>, 1)>>)}

GenInit ==
    /\ generator = IntermediateCodeGenerator
    /\ hist = [calls |-> 0, ast |-> NoneNode, out |-> <<>>,
               prev_ast |-> NoneNode, prev_out |-> <<>>]
    /\ lexer = Absent
    /\ parser = Absent
    /\ analyzer = Absent
    /\ compiler = Absent

Generate(ast) ==
    /\ hist.calls < MaxCalls
    /\ LET r == generate(generator, ast)
       IN  /\ generator' = r.self
           /\ hist' = [calls |-> hist.calls + 1, ast |-> ast, out |-> r.val,
                       prev_ast |-> hist.ast, prev_out |-> hist.out]
    /\ UNCHANGED <<lexer, parser, analyzer, compiler>>

GenerateFirst == hist.calls = 0 /\ \E ast \in GenPrograms : Generate(ast)

GenerateAgain == hist.calls > 0 /\ \E ast \in GenAgain \cup {hist.ast} : Generate(ast)

GenNext == GenerateFirst \/ GenerateAgain

SpecGen == GenInit /\ [][GenNext]_vars

(***************************************************************************)
(* Properties of the generated listing.                                    *)
(***************************************************************************)
Generated == generator # Absent /\ hist.calls > 0

JumpOps == {GOTO, IF_FALSE, IF_TRUE}

LabelPositions(code, label) ==
    {i \in 1..Len(code) : code[i].op = LABEL /\ code[i].result = label}

\* C1: in the listing generate() returns, every label a GOTO, IF_FALSE or
\* IF_TRUE jumps to is defined by exactly one LABEL instruction, and no two
\* LABEL instructions define the same label.
C1_JumpTargetsDefinedOnce ==
    Generated =>
        /\ \A i \in 1..Len(hist.out) :
               hist.out[i].op \in JumpOps =>
                   Cardinality(LabelPositions(hist.out, hist.out[i].result)) = 1
        /\ \A i, j \in 1..Len(hist.out) :
               (/\ hist.out[i].op = LABEL
                /\ hist.out[j].op = LABEL
                /\ hist.out[i].result = hist.out[j].result) => i = j

\* A listing with a forward and a backward jump and four labels.
C1_Witness ==
    /\ Generated
    /\ Cardinality({i \in 1..Len(hist.out) : hist.out[i].op = LABEL}) >= 4
    /\ \E i, j \in 1..Len(hist.out) :
           /\ i < j
           /\ hist.out[i].op = LABEL
           /\ hist.out[j].op = GOTO
           /\ hist.out[j].result = hist.out[i].result
    /\ \E i, j \in 1..Len(hist.out) :
           /\ i < j
           /\ hist.out[i].op = IF_FALSE
           /\ hist.out[j].op = LABEL
           /\ hist.out[j].result = hist.out[i].result

ControlOps == {ASSIGN, LABEL, GOTO, IF_FALSE, IF_TRUE, PRINT}

\* Positions of the binary-operator and UNARY_MINUS/UNARY_PLUS instructions.
TempPositions(code) == {i \in 1..Len(code) : code[i].op \notin ControlOps}

LabelsOf(code) ==
    {code[i].result : i \in {j \in 1..Len(code) : code[j].op \in JumpOps \cup {LABEL}}}

\* C2: in the listing of every generate() call, the first included and every
\* later one on the same generator, the k-th operator instruction writes
\* t(k-1), the labels that occur are L0..L(n-1) for some n, and a call on the
\* AST of the call before it returns the listing that call returned.
C2_NumberedFromZeroEachCall ==
    Generated =>
        /\ \A i \in TempPositions(hist.out) :
               hist.out[i].result =
                   <<"t">> \o DecimalText(Cardinality({j \in TempPositions(hist.out) : j < i}))
        /\ LabelsOf(hist.out) =
               {<<"L">> \o DecimalText(n) : n \in 0..(Cardinality(LabelsOf(hist.out)) - 1)}
        /\ (hist.calls > 1 /\ hist.ast = hist.prev_ast) => hist.out = hist.prev_out

\* A second call on the AST of the first, whose listing has temporaries and labels.
C2_Witness ==
    /\ Generated
    /\ hist.calls = 2
    /\ hist.ast = hist.prev_ast
    /\ Cardinality(TempPositions(hist.out)) >= 2
    /\ Cardinality(LabelsOf(hist.out)) >= 4

(***************************************************************************)
(* The places of an AST's nodes in its listing: each node with the number  *)
(* of instructions emitted, and of temporaries and labels allocated, when  *)
(* the traversal enters it.                                                *)
(***************************************************************************)
BlockOf(block) == IF block = NoneBlock THEN <<>> ELSE block

\* Operator nodes of an expression.
RECURSIVE ExprOps(_)
ExprOps(e) ==
    IF e.node = "BinaryOpNode" THEN ExprOps(e.left) + ExprOps(e.right) + 1
    ELSE IF e.node = "UnaryOpNode" THEN ExprOps(e.operand) + 1
    ELSE 0

\* What stands for the value of e in later instructions, t0 temporaries
\* being allocated when e is entered.
OperandOf(e, t0) ==
    IF e.node = "NumberNode" THEN str(e.value)
    ELSE IF e.node = "IdentifierNode" THEN e.name
    ELSE <<"t">> \o DecimalText(t0 + ExprOps(e) - 1)

\* [instrs, temps, labels] of a statement list.
RECURSIVE BlockSize(_)
StmtSize(st) ==
    IF st.node \in {"AssignmentNode", "PrintNode"}
    THEN [instrs |-> ExprOps(st.expression) + 1, temps |-> ExprOps(st.expression),
          labels |-> 0]
    ELSE IF st.node = "IfNode"
    THEN LET t == BlockSize(BlockOf(st.then_block))
             e == BlockSize(BlockOf(st.else_block))
             c == ExprOps(st.condition)
         IN  [instrs |-> c + t.instrs + e.instrs + 4, temps |-> c + t.temps + e.temps,
              labels |-> t.labels + e.labels + 2]
    ELSE IF st.node = "WhileNode"
    THEN LET b == BlockSize(BlockOf(st.body))
             c == ExprOps(st.condition)
         IN  [instrs |-> c + b.instrs + 4, temps |-> c + b.temps, labels |-> b.labels + 2]
    ELSE [instrs |-> 0, temps |-> 0, labels |-> 0]

BlockSize(block) ==
    IF block = <<>> THEN [instrs |-> 0, temps |-> 0, labels |-> 0]
    ELSE LET h == StmtSize(Head(block))
             t == BlockSize(Tail(block))
         IN  [instrs |-> h.instrs + t.instrs, temps |-> h.temps + t.temps,
              labels |-> h.labels + t.labels]

Place(node, pos, t0, l0) == [at |-> node, pos |-> pos, t0 |-> t0, l0 |-> l0]

\* Every statement of a statement list, nested ones included, with its place.
RECURSIVE StmtPlaces(_, _, _, _)
StmtPlaces(block, pos, t0, l0) ==
    IF block = <<>> THEN {}
    ELSE LET st == Head(block)
             sz == StmtSize(st)
             c == IF st.node \in {"IfNode", "WhileNode"} THEN ExprOps(st.condition) ELSE 0
             inside ==
                 IF st.node = "IfNode"
                 THEN LET t == BlockSize(BlockOf(st.then_block))
                      IN  StmtPlaces(BlockOf(st.then_block), pos + c + 1, t0 + c, l0 + 2)
                          \cup StmtPlaces(BlockOf(st.else_block), pos + c + t.instrs + 3,
                                          t0 + c + t.temps, l0 + 2 + t.labels)
                 ELSE IF st.node = "WhileNode"
                 THEN StmtPlaces(BlockOf(st.body), pos + c + 2, t0 + c, l0 + 2)
                 ELSE {}
         IN  {Place(st, pos, t0, l0)} \cup inside
             \cup StmtPlaces(Tail(block), pos + sz.instrs, t0 + sz.temps, l0 + sz.labels)

\* Every node of an expression with its place.
RECURSIVE ExprPlaces(_, _, _)
ExprPlaces(e, pos, t0) ==
    {Place(e, pos, t0, 0)}
        \cup (IF e.node = "BinaryOpNode"
              THEN ExprPlaces(e.left, pos, t0)
                   \cup ExprPlaces(e.right, pos + ExprOps(e.left), t0 + ExprOps(e.left))
              ELSE IF e.node = "UnaryOpNode" THEN ExprPlaces(e.operand, pos, t0)
              ELSE {})

\* The expression a statement lowers first, with its place.
ExprOfStmt(pl) ==
    IF pl.at.node \in {"AssignmentNode", "PrintNode"}
    THEN ExprPlaces(pl.at.expression, pl.pos, pl.t0)
    ELSE IF pl.at.node = "IfNode" THEN ExprPlaces(pl.at.condition, pl.pos, pl.t0)
    ELSE IF pl.at.node = "WhileNode" THEN ExprPlaces(pl.at.condition, pl.pos + 1, pl.t0)
    ELSE {}

ProgramPlaces(ast) == StmtPlaces(ast.statements, 0, 0, 0)

L(n) == <<"L">> \o DecimalText(n)

\* The instructions of expression place pl are where post-order puts them.
ExprLowered(code, pl) ==
    \A sub \in ExprPlaces(pl.at, pl.pos, pl.t0) :
        LET own == sub.pos + ExprOps(sub.at)
            t == <<"t">> \o DecimalText(sub.t0 + ExprOps(sub.at) - 1)
        IN  /\ sub.at.node = "BinaryOpNode" =>
                   /\ own <= Len(code)
                   /\ code[own] = ThreeAddressCode(sub.at.operator,
                          OperandOf(sub.at.left, sub.t0),
                          OperandOf(sub.at.right, sub.t0 + ExprOps(sub.at.left)), t)
            /\ sub.at.node = "UnaryOpNode" =>
                   /\ own <= Len(code)
                   /\ code[own] = ThreeAddressCode(
                          IF sub.at.operator = <<"-">> THEN UNARY_MINUS ELSE UNARY_PLUS,
                          OperandOf(sub.at.operand, sub.t0), None, t)

\* An Assignment or Print at place pl: its expression's instructions, then
\* one ASSIGN or PRINT of the operand the expression returned.
SimpleLowered(code, pl) ==
    LET own == pl.pos + ExprOps(pl.at.expression) + 1
    IN  /\ own <= Len(code)
        /\ ExprLowered(code, Place(pl.at.expression, pl.pos, pl.t0, 0))
        /\ code[own] = ThreeAddressCode(
               IF pl.at.node = "AssignmentNode" THEN ASSIGN ELSE PRINT,
               OperandOf(pl.at.expression, pl.t0), None,
               IF pl.at.node = "AssignmentNode" THEN pl.at.identifier ELSE None)

\* The Assignments and Prints of a block entered at the given place.
BlockLowered(code, block, pos, t0, l0) ==
    \A in \in StmtPlaces(BlockOf(block), pos, t0, l0) :
        in.at.node \in {"AssignmentNode", "PrintNode"} => SimpleLowered(code, in)

\* C3: the listing holds, for every If node, the condition's instructions,
\* IF_FALSE c -> Lelse, the then-block, GOTO Lend, LABEL Lelse, the else-block
\* if there is one, LABEL Lend, in this order, Lelse being the first label
\* free when the node is entered and Lend the next; without an else-block
\* GOTO Lend, LABEL Lelse and LABEL Lend are consecutive.
C3_IfLowering ==
    Generated =>
        \A pl \in ProgramPlaces(hist.ast) :
            pl.at.node = "IfNode" =>
                LET c == ExprOps(pl.at.condition)
                    t == BlockSize(BlockOf(pl.at.then_block))
                    e == BlockSize(BlockOf(pl.at.else_block))
                    jump == pl.pos + c + 1
                    goto == jump + t.instrs + 1
                    last == goto + 2 + e.instrs
                IN  /\ last <= Len(hist.out)
                    /\ ExprLowered(hist.out, Place(pl.at.condition, pl.pos, pl.t0, 0))
                    /\ hist.out[jump] = ThreeAddressCode(IF_FALSE,
                           OperandOf(pl.at.condition, pl.t0), None, L(pl.l0))
                    /\ hist.out[goto] = ThreeAddressCode(GOTO, None, None, L(pl.l0 + 1))
                    /\ hist.out[goto + 1] = ThreeAddressCode(LABEL, None, None, L(pl.l0))
                    /\ hist.out[last] = ThreeAddressCode(LABEL, None, None, L(pl.l0 + 1))
                    /\ ~Truthy(pl.at.else_block) => last = goto + 2
                    /\ BlockLowered(hist.out, pl.at.then_block, jump, pl.t0 + c, pl.l0 + 2)
                    /\ BlockLowered(hist.out, pl.at.else_block, goto + 1,
                                    pl.t0 + c + t.temps, pl.l0 + 2 + t.labels)

\* An If with an else-block nested in a block, and an If without one.
C3_Witness ==
    /\ Generated
    /\ \E pl \in ProgramPlaces(hist.ast) :
           /\ pl.at.node = "IfNode"
           /\ Truthy(pl.at.else_block)
           /\ pl.l0 > 0
    /\ \E pl \in ProgramPlaces(hist.ast) :
           /\ pl.at.node = "IfNode"
           /\ ~Truthy(pl.at.else_block)
           /\ Truthy(pl.at.then_block)

\* C4: the listing holds, for every While node, LABEL Lstart, the
\* condition's instructions, IF_FALSE c -> Lend, the body, GOTO Lstart,
\* LABEL Lend, in this order, Lstart being the first label free when the
\* node is entered and Lend the next, and the labels of the body being the
\* ones after Lend.
C4_WhileLowering ==
    Generated =>
        \A pl \in ProgramPlaces(hist.ast) :
            pl.at.node = "WhileNode" =>
                LET c == ExprOps(pl.at.condition)
                    b == BlockSize(BlockOf(pl.at.body))
                    jump == pl.pos + c + 2
                    goto == jump + b.instrs + 1
                IN  /\ goto + 1 <= Len(hist.out)
                    /\ hist.out[pl.pos + 1] = ThreeAddressCode(LABEL, None, None, L(pl.l0))
                    /\ ExprLowered(hist.out, Place(pl.at.condition, pl.pos + 1, pl.t0, 0))
                    /\ hist.out[jump] = ThreeAddressCode(IF_FALSE,
                           OperandOf(pl.at.condition, pl.t0), None, L(pl.l0 + 1))
                    /\ BlockLowered(hist.out, pl.at.body, jump, pl.t0 + c, pl.l0 + 2)
                    /\ hist.out[goto] = ThreeAddressCode(GOTO, None, None, L(pl.l0))
                    /\ hist.out[goto + 1] = ThreeAddressCode(LABEL, None, None, L(pl.l0 + 1))
                    /\ LabelsOf(SubSeq(hist.out, jump + 1, goto - 1)) =
                           {L(n) : n \in (pl.l0 + 2)..(pl.l0 + 1 + b.labels)}

\* A While that is not the first user of labels and whose body needs labels.
C4_Witness ==
    /\ Generated
    /\ \E pl \in ProgramPlaces(hist.ast) :
           /\ pl.at.node = "WhileNode"
           /\ BlockSize(BlockOf(pl.at.body)).labels > 0
    /\ \E pl \in ProgramPlaces(hist.ast) :
           /\ pl.at.node = "WhileNode"
           /\ pl.l0 > 0
           /\ ExprOps(pl.at.condition) > 0

\* C5: an expression's listing has one instruction per BinaryOp and UnaryOp
\* node, the left operand's before the right operand's before the node's own,
\* which writes the next temporary; a Number, an Identifier and a
\* VarDeclaration add none; an Assignment or Print adds, after its
\* expression's, one ASSIGN or PRINT whose arg1 is the expression's operand.
C5_PostOrderOneInstructionPerOperator ==
    Generated =>
        /\ Len(hist.out) = BlockSize(hist.ast.statements).instrs
        /\ Cardinality(TempPositions(hist.out)) = BlockSize(hist.ast.statements).temps
        /\ \A pl \in ProgramPlaces(hist.ast) :
               /\ \A sub \in ExprOfStmt(pl) : ExprLowered(hist.out, sub)
               /\ pl.at.node \in {"AssignmentNode", "PrintNode"} =>
                      SimpleLowered(hist.out, pl)

\* An Assignment or Print of an operator whose both operands are operators,
\* in a program that also holds a VarDeclaration.
C5_Witness ==
    /\ Generated
    /\ \E pl \in ProgramPlaces(hist.ast) :
           /\ pl.at.node \in {"AssignmentNode", "PrintNode"}
           /\ pl.at.expression.node = "BinaryOpNode"
           /\ pl.at.expression.left.node \in {"BinaryOpNode", "UnaryOpNode"}
           /\ pl.at.expression.right.node \in {"BinaryOpNode", "UnaryOpNode"}
    /\ \E pl \in ProgramPlaces(hist.ast) : pl.at.node = "VarDeclarationNode"

(***************************************************************************)
(* Analyzer runs: a SemanticAnalyzer is constructed and analyze() is run   *)
(* on a Program, one top-level statement of visit_ProgramNode's loop at a  *)
(* time.                                                                   *)
(***************************************************************************)
MaxStmts == 3

\* The statement forms, written on the given line.
SemForms(line) ==
    LET x == IdentifierNode(<<"x">>, line)
        y == IdentifierNode(<<"y">>, line)
        one == NumberNode(IntValue(1), line)
    IN  <<VarDeclarationNode(<<"x">>, line),
          VarDeclarationNode(<<"y">>, line),
          AssignmentNode(<<"x">>, one, line),
          AssignmentNode(<<"y">>, BinaryOpNode(<<"+">>, x, one, line), line),
          PrintNode(x, line),
          PrintNode(y, line),
          IfNode(BinaryOpNode(<<"<">>, x, one, line),
                 <<VarDeclarationNode(<<"y">>, line)>>,
                 <<AssignmentNode(<<"y">>, one, line)>>, line),
          WhileNode(BinaryOpNode(<<"<">>, y, one, line),
                    <<AssignmentNode(<<"x">>, y, line)>>, line),
          IfNode(y, <<VarDeclarationNode(<<"x">>, line)>>, NoneBlock, line)>>

\* Programs of up to MaxStmts statements, the i-th on line i.
SemStatementLists ==
    UNION {{[i \in 1..n |-> SemForms(i)[f[i]]] : f \in [1..n -> 1..Len(SemForms(1))]} :
           n \in 0..MaxStmts}

\* Programs the specification and the claims name.
SemExamples ==
    {ProgramNode(<<AssignmentNode(<<"y">>, IdentifierNode(<<"z">>, 1), 1)>>),
     ProgramNode(<<VarDeclarationNode(<<"a">>, 1),
                   AssignmentNode(<<"y">>, IdentifierNode(<<"a">>, 2), 2)>>),
     ProgramNode(<<VarDeclarationNode(<<"x">>, 1), VarDeclarationNode(<<"x">>, 1)>>),
     ProgramNode(<<VarDeclarationNode(<<"x">>, 1), VarDeclarationNode(<<"y">>, 2),
                   AssignmentNode(<<"y">>, NumberNode(IntValue(1), 3), 3),
                   AssignmentNode(<<"x">>,
                       BinaryOpNode(<<"+">>, IdentifierNode(<<"x">>, 4),
                                    NumberNode(IntValue(1), 4), 4), 4)>>)}

SemPrograms == {ProgramNode(statements) : statements \in SemStatementLists} \cup SemExamples

SemInit ==
    /\ analyzer = [self |-> SemanticAnalyzer, status |-> "constructed",
                   exc |-> "none", text |-> <<>>]
    /\ \E ast \in SemPrograms : hist = [ast |-> ast, next |-> 0]
    /\ lexer = Absent
    /\ parser = Absent
    /\ generator = Absent
    /\ compiler = Absent

\* The state analyze() ends in.
Analyzed(r) ==
    [self |-> r.self, status |-> IF r.exc = "none" THEN "returned" ELSE "raised",
     exc |-> r.exc, text |-> IF r.exc = "none" THEN <<>> ELSE r.text]

AnalyzeEnter ==
    /\ analyzer.status = "constructed"
    /\ analyzer' = [analyzer EXCEPT !.self = analyze_enter(@), !.status = "visiting"]
    /\ hist' = [hist EXCEPT !.next = 1]
    /\ UNCHANGED <<lexer, parser, generator, compiler>>

AnalyzeVisit ==
    /\ analyzer.status = "visiting"
    /\ hist.next <= Len(hist.ast.statements)
    /\ LET visited == Sem_visit(analyzer.self, hist.ast.statements[hist.next])
       IN  IF visited.exc # "none"
           THEN analyzer' = Analyzed(analyze_return(visited)) /\ hist' = hist
           ELSE /\ analyzer' = [analyzer EXCEPT !.self = visited.self]
                /\ hist' = [hist EXCEPT !.next = @ + 1]
    /\ UNCHANGED <<lexer, parser, generator, compiler>>

AnalyzeReturn ==
    /\ analyzer.status = "visiting"
    /\ hist.next > Len(hist.ast.statements)
    /\ analyzer' = Analyzed(analyze_return(Return(analyzer.self, NoType)))
    /\ hist' = hist
    /\ UNCHANGED <<lexer, parser, generator, compiler>>

SemNext == AnalyzeEnter \/ AnalyzeVisit \/ AnalyzeReturn

SpecSem == SemInit /\ [][SemNext]_vars

(***************************************************************************)
(* Source order: what a program does with names, statement by statement,   *)
(* blocks included.                                                        *)
(***************************************************************************)
Event(kind, name, line) == [kind |-> kind, name |-> name, line |-> line]

\* The identifiers an expression reads, left to right.
RECURSIVE Reads(_)
Reads(e) ==
    IF e.node = "IdentifierNode" THEN <<Event("read", e.name, e.line)>>
    ELSE IF e.node = "BinaryOpNode" THEN Reads(e.left) \o Reads(e.right)
    ELSE IF e.node = "UnaryOpNode" THEN Reads(e.operand)
    ELSE <<>>

RECURSIVE Events(_)
Events(block) ==
    IF block = <<>> THEN <<>>
    ELSE LET st == Head(block)
             own ==
                 IF st.node = "VarDeclarationNode"
                 THEN <<Event("declare", st.identifier, st.line)>>
                 ELSE IF st.node = "AssignmentNode"
                 THEN <<Event("assign", st.identifier, st.line)>> \o Reads(st.expression)
                 ELSE IF st.node = "PrintNode" THEN Reads(st.expression)
                 ELSE IF st.node = "IfNode"
                 THEN Reads(st.condition) \o Events(BlockOf(st.then_block))
                          \o Events(BlockOf(st.else_block))
                 ELSE IF st.node = "WhileNode"
                 THEN Reads(st.condition) \o Events(BlockOf(st.body))
                 ELSE <<>>
         IN  own \o Events(Tail(block))

DeclaredBefore(events, k) ==
    \E j \in 1..(k - 1) : events[j].kind = "declare" /\ events[j].name = events[k].name

\* part occurs in text as a run of consecutive elements.
Contains(text, part) ==
    \E i \in 0..(Len(text) - Len(part)) : SubSeq(text, i + 1, i + Len(part)) = part

AnalysisEnded == analyzer # Absent /\ analyzer.status \in {"returned", "raised"}

\* C9: when analyze() ends, for every assignment target and every read of an
\* identifier that no VarDeclaration precedes in source order, analyze() has
\* raised SemanticError and the error text names the identifier on the line
\* of that node.
C9_UndeclaredUseRejected ==
    AnalysisEnded =>
        LET events == Events(hist.ast.statements)
        IN  \A k \in 1..Len(events) :
                (events[k].kind \in {"assign", "read"} /\ ~DeclaredBefore(events, k)) =>
                    /\ analyzer.exc = "SemanticError"
                    /\ Contains(analyzer.text,
                           <<"Error semantico (linea ">> \o DecimalText(events[k].line)
                               \o <<"): ", "Variable '">> \o events[k].name
                               \o <<"' no declarada.">>)

\* The line of the first declaration of name among events.
FirstDeclLine(events, name) ==
    LET first == CHOOSE k \in 1..Len(events) :
                     /\ events[k].kind = "declare" /\ events[k].name = name
                     /\ ~DeclaredBefore(events, k)
    IN  events[first].line

DeclaredNames(events) ==
    {events[k].name : k \in {j \in 1..Len(events) : events[j].kind = "declare"}}

RedeclarationText(name, first_line, line) ==
    <<"Error semantico: Variable '">> \o name \o <<"' ya declarada en linea ">>
        \o DecimalText(first_line) \o <<". ", "Redeclaracion en linea ">>
        \o DecimalText(line) \o <<".">>

\* The statements visit_ProgramNode has visited so far.
Visited == SubSeq(hist.ast.statements, 1, hist.next - 1)

\* The table holds one symbol per declared name, on the line of the name's
\* first declaration.
OneSymbolPerNameOnFirstLine ==
    (analyzer # Absent /\ analyzer.status # "constructed") =>
        LET symbols == analyzer.self.symbol_table.symbols
            events == Events(Visited)
        IN  /\ Len(symbols) = Cardinality(DeclaredNames(events))
            /\ \A i \in 1..Len(symbols) :
                   /\ symbols[i].name \in DeclaredNames(events)
                   /\ symbols[i].line = FirstDeclLine(events, symbols[i].name)

\* What the visit of one top-level statement does to a name declared before
\* it: a declaration of the name, nested or not, adds the error citing the
\* first and the new line and no symbol; the symbol stays where it is with its
\* line, its flags are not cleared, and are untouched if the statement does
\* not assign or read the name; after a redeclaration an assignment still
\* initializes and a read still marks used that symbol.
RedeclarationStep ==
    (analyzer.status = "visiting" /\ hist'.next = hist.next + 1) =>
        LET t == analyzer.self.symbol_table
            t2 == analyzer'.self.symbol_table
            st == hist.ast.statements[hist.next]
            events == Events(<<st>>)
            before == Events(Visited)
            errors == analyzer.self.errors
            errors2 == analyzer'.self.errors
        IN  \A i \in 1..Len(t.symbols) :
                LET symbol == t.symbols[i]
                    touched == \E k \in 1..Len(events) :
                                   /\ events[k].kind \in {"assign", "read"}
                                   /\ events[k].name = symbol.name
                    redeclared == \E j, k \in 1..Len(before) :
                                      /\ j < k
                                      /\ before[j] = Event("declare", symbol.name, symbol.line)
                                      /\ before[k].kind = "declare"
                                      /\ before[k].name = symbol.name
                IN  /\ Len(t2.symbols) >= i
                    /\ t2.symbols[i].name = symbol.name
                    /\ t2.symbols[i].line = symbol.line
                    /\ symbol.initialized => t2.symbols[i].initialized
                    /\ symbol.used => t2.symbols[i].used
                    /\ ~touched => t2.symbols[i] = symbol
                    /\ \A k \in 1..Len(events) :
                           (events[k].kind = "declare" /\ events[k].name = symbol.name) =>
                               /\ \E e \in (Len(errors) + 1)..Len(errors2) :
                                      errors2[e] = RedeclarationText(symbol.name, symbol.line,
                                                                     events[k].line)
                               /\ Len(t2.symbols) - Len(t.symbols) =
                                      Cardinality(DeclaredNames(events)
                                                      \ DeclaredNames(before))
                    /\ (redeclared /\ st.node = "AssignmentNode"
                            /\ st.identifier = symbol.name) => t2.symbols[i].initialized
                    /\ (redeclared /\ st.node = "PrintNode"
                            /\ st.expression = IdentifierNode(symbol.name, st.line)) =>
                           t2.symbols[i].used

\* C10: declaring a name the table already holds adds an error that cites
\* the line of the first declaration and the line of the redeclaration and
\* leaves the table as it was: same size, the symbol with its line and flags;
\* later assignments and reads of the name act on that first symbol.
C10_RedeclarationLeavesTableUnchanged ==
    []OneSymbolPerNameOnFirstLine /\ [][RedeclarationStep]_vars

\* A name declared on line 1, declared again on line 2 and assigned on
\* line 3, when analysis has ended.
C10_Witness ==
    /\ AnalysisEnded
    /\ Len(hist.ast.statements) = 3
    /\ \E name \in {<<"x">>, <<"y">>} :
           /\ hist.ast.statements[1] = VarDeclarationNode(name, 1)
           /\ Events(<<hist.ast.statements[2]>>)[Len(Events(<<hist.ast.statements[2]>>))] =
                  Event("declare", name, 2)
           /\ hist.ast.statements[3].node = "AssignmentNode"
           /\ hist.ast.statements[3].identifier = name
           /\ lookup(analyzer.self.symbol_table, name).line = 1
           /\ lookup(analyzer.self.symbol_table, name).initialized
           /\ Contains(analyzer.text, RedeclarationText(name, 1, 2))

(***************************************************************************)
(* The findings a program calls for, in traversal order.                   *)
(***************************************************************************)
UndeclaredText(name, line) ==
    <<"Error semantico (linea ">> \o DecimalText(line) \o <<"): ", "Variable '">>
        \o name \o <<"' no declarada.">>

OperandText(e) ==
    <<"Error semantico (linea ">> \o DecimalText(e.line) \o <<"): ">>
        \o (IF e.node = "UnaryOpNode"
            THEN <<"Operador unario '">> \o e.operator \o <<"' requiere operando numerico.">>
            ELSE IF e.operator \in ArithmeticOperators
            THEN <<"Operador '">> \o e.operator \o <<"' requiere operandos numericos.">>
            ELSE <<"Operador '">> \o e.operator \o <<"' requiere operandos comparables.">>)

\* The type rules: "None" is the unknown type; an identifier's type is the
\* data type of its symbol, which no declaration gives.
RECURSIVE TypeOf(_)
TypeOf(e) ==
    IF e.node = "NumberNode" THEN e.value.tag
    ELSE IF e.node = "BinaryOpNode"
    THEN IF TypeOf(e.left) = "bool" \/ TypeOf(e.right) = "bool" THEN "None"
         ELSE IF e.operator \in ArithmeticOperators
         THEN (IF "float" \in {TypeOf(e.left), TypeOf(e.right)} THEN "float" ELSE "int")
         ELSE "bool"
    ELSE IF e.node = "UnaryOpNode"
    THEN (IF TypeOf(e.operand) = "bool" THEN "None" ELSE TypeOf(e.operand))
    ELSE "None"

OperandError(e) ==
    \/ e.node = "BinaryOpNode" /\ "bool" \in {TypeOf(e.left), TypeOf(e.right)}
    \/ e.node = "UnaryOpNode" /\ TypeOf(e.operand) = "bool"

\* The errors of an expression, names being the declared names.
RECURSIVE ExprErrors(_, _)
ExprErrors(e, names) ==
    IF e.node = "IdentifierNode"
    THEN (IF e.name \in names THEN <<>> ELSE <<UndeclaredText(e.name, e.line)>>)
    ELSE (IF e.node = "BinaryOpNode"
          THEN ExprErrors(e.left, names) \o ExprErrors(e.right, names)
          ELSE IF e.node = "UnaryOpNode" THEN ExprErrors(e.operand, names)
          ELSE <<>>)
             \o (IF OperandError(e) THEN <<OperandText(e)>> ELSE <<>>)

UninitializedReadText(name, line) ==
    <<"Advertencia (linea ">> \o DecimalText(line) \o <<"): ", "Variable '">>
        \o name \o <<"' podria no estar inicializada.">>

\* The warnings of a sequence of reads: one for each read of a declared name
\* that is not initialized.
RECURSIVE ReadWarnings(_, _, _)
ReadWarnings(reads, names, inits) ==
    IF reads = <<>> THEN <<>>
    ELSE (IF Head(reads).name \in names \ inits
          THEN <<UninitializedReadText(Head(reads).name, Head(reads).line)>>
          ELSE <<>>) \o ReadWarnings(Tail(reads), names, inits)

ReadNames(e) == {Reads(e)[k].name : k \in 1..Len(Reads(e))}

NoFindings == [errors |-> <<>>, warnings |-> <<>>, decls |-> <<>>, inits |-> {}, used |-> {}]

\* The findings of a statement list after the findings f of what precedes it:
\* errors and warnings in traversal order, the declarations [name, line] in
\* order, the names initialized and the names used.
RECURSIVE BlockFindings(_, _)
ExprFindings(e, f) ==
    LET names == {f.decls[k].name : k \in 1..Len(f.decls)}
    IN  [f EXCEPT !.errors = @ \o ExprErrors(e, names),
                  !.warnings = @ \o ReadWarnings(Reads(e), names, f.inits),
                  !.used = @ \cup (ReadNames(e) \cap names)]

StmtFindings(st, f) ==
    LET names == {f.decls[k].name : k \in 1..Len(f.decls)}
    IN  IF st.node = "VarDeclarationNode"
        THEN IF st.identifier \in names
             THEN [f EXCEPT !.errors =
                       Append(@, RedeclarationText(st.identifier,
                                     f.decls[CHOOSE k \in 1..Len(f.decls) :
                                                 f.decls[k].name = st.identifier].line,
                                     st.line))]
             ELSE [f EXCEPT !.decls = Append(@, [name |-> st.identifier, line |-> st.line])]
        ELSE IF st.node = "AssignmentNode"
        THEN IF st.identifier \in names
             THEN [ExprFindings(st.expression, f) EXCEPT !.inits = @ \cup {st.identifier}]
             ELSE ExprFindings(st.expression,
                      [f EXCEPT !.errors = Append(@, UndeclaredText(st.identifier, st.line))])
        ELSE IF st.node = "PrintNode" THEN ExprFindings(st.expression, f)
        ELSE IF st.node = "IfNode"
        THEN BlockFindings(BlockOf(st.else_block),
                 BlockFindings(BlockOf(st.then_block), ExprFindings(st.condition, f)))
        ELSE IF st.node = "WhileNode"
        THEN BlockFindings(BlockOf(st.body), ExprFindings(st.condition, f))
        ELSE f

BlockFindings(block, f) ==
    IF block = <<>> THEN f
    ELSE BlockFindings(Tail(block), StmtFindings(Head(block), f))

Expected == BlockFindings(hist.ast.statements, NoFindings)

ExpectedErrors == Expected.errors

\* C11: when analyze() ends, the errors collected are one per violation of
\* the whole program in traversal order; if there is one, analyze() has
\* raised one SemanticError whose text is the heading followed by the errors
\* joined by newlines; if there is none, analyze() has returned.
C11_AllErrorsCollectedThenOneRaise ==
    AnalysisEnded =>
        /\ analyzer.self.errors = ExpectedErrors
        /\ ExpectedErrors # <<>> =>
               /\ analyzer.status = "raised"
               /\ analyzer.exc = "SemanticError"
               /\ analyzer.text = <<"Se encontraron errores semanticos:\n">>
                                      \o Join(<<"\n">>, ExpectedErrors)
        /\ ExpectedErrors = <<>> => analyzer.status = "returned"


IsReadWarning(w) == w[1] = "Advertencia (linea "

\* C12: when analyze() ends, the warnings appended during the traversal are
\* one for each read of a declared identifier that no earlier Assignment has
\* initialized, in traversal order, and no error is reported for such a read.
C12_UninitializedReadWarnsOnly ==
    AnalysisEnded =>
        /\ SelectSeq(analyzer.self.warnings, IsReadWarning) = Expected.warnings
        /\ \A k \in 1..Len(Expected.decls), line \in 1..Len(hist.ast.statements) :
               (\E w \in 1..Len(Expected.warnings) :
                    Expected.warnings[w] =
                        UninitializedReadText(Expected.decls[k].name, line)) =>
                   ~\E e \in 1..Len(analyzer.self.errors) :
                        analyzer.self.errors[e] = UndeclaredText(Expected.decls[k].name, line)


NeverUsedText(name, line) ==
    <<"Advertencia: Variable '">> \o name \o <<"' declarada en linea ">>
        \o DecimalText(line) \o <<" ", "pero nunca usada.">>

\* The visit of a top-level Assignment to a declared target: the target is
\* initialized afterwards, its used flag changes only if the right-hand side
\* reads it, and the right-hand side is judged with the flags as they were
\* before, so a read of the uninitialized target itself is warned about.
AssignmentStep ==
    (/\ analyzer.status = "visiting"
     /\ hist'.next = hist.next + 1
     /\ hist.ast.statements[hist.next].node = "AssignmentNode"
     /\ exists(analyzer.self.symbol_table, hist.ast.statements[hist.next].identifier)) =>
        LET st == hist.ast.statements[hist.next]
            before == lookup(analyzer.self.symbol_table, st.identifier)
            after == lookup(analyzer'.self.symbol_table, st.identifier)
        IN  /\ after.initialized
            /\ after.used = (before.used \/ st.identifier \in ReadNames(st.expression))
            /\ (~before.initialized /\ st.identifier \in ReadNames(st.expression)) =>
                   \E w \in (Len(analyzer.self.warnings) + 1)..Len(analyzer'.self.warnings) :
                       analyzer'.self.warnings[w] =
                           UninitializedReadText(st.identifier, st.line)

\* When analyze() ends: a symbol is initialized exactly if an Assignment to
\* it was visited after its declaration, it is used only if an expression
\* reads it, and an unused one has its 'never used' warning.
FlagsAtEnd ==
    AnalysisEnded =>
        \A i \in 1..Len(analyzer.self.symbol_table.symbols) :
            LET symbol == analyzer.self.symbol_table.symbols[i]
            IN  /\ symbol.initialized = (symbol.name \in Expected.inits)
                /\ symbol.used => symbol.name \in Expected.used
                /\ symbol.name \notin Expected.used =>
                       /\ ~symbol.used
                       /\ \E w \in 1..Len(analyzer.self.warnings) :
                              analyzer.self.warnings[w] =
                                  NeverUsedText(symbol.name, symbol.line)

\* C13: an Assignment to a declared target sets initialized after the
\* right-hand side was visited and leaves used alone; only a read sets used,
\* so a variable assigned and never read ends unused with the 'never used'
\* warning, and an assignment reading its own uninitialized target warns.
C13_AssignmentInitializesReadUses == []FlagsAtEnd /\ [][AssignmentStep]_vars

\* Analysis ended with a symbol initialized, unused and warned about, and
\* with the warning for an assignment that reads its own target.
C13_Witness ==
    /\ AnalysisEnded
    /\ \E i \in 1..Len(analyzer.self.symbol_table.symbols) :
           LET symbol == analyzer.self.symbol_table.symbols[i]
           IN  /\ symbol.initialized /\ ~symbol.used
               /\ \E w \in 1..Len(analyzer.self.warnings) :
                      analyzer.self.warnings[w] = NeverUsedText(symbol.name, symbol.line)
    /\ \E k \in 1..Len(hist.ast.statements) :
           LET st == hist.ast.statements[k]
           IN  /\ st.node = "AssignmentNode"
               /\ st.identifier \in ReadNames(st.expression)
               /\ \E w \in 1..Len(analyzer.self.warnings) :
                      analyzer.self.warnings[w] = UninitializedReadText(st.identifier, st.line)
               /\ lookup(analyzer.self.symbol_table, st.identifier).initialized


SymbolsNow == IF analyzer = Absent THEN <<>> ELSE analyzer.self.symbol_table.symbols

UniqueNames ==
    \A i, j \in 1..Len(SymbolsNow) : SymbolsNow[i].name = SymbolsNow[j].name => i = j

\* Every step of the analysis keeps each symbol in its place with its name,
\* kind, type, value and line, and clears neither flag.
SymbolsKept ==
    /\ analyzer'.self.symbol_table.scopes = analyzer.self.symbol_table.scopes
    /\ Len(analyzer'.self.symbol_table.symbols) >= Len(SymbolsNow)
    /\ \A i \in 1..Len(SymbolsNow) :
           LET before == SymbolsNow[i]
               after == analyzer'.self.symbol_table.symbols[i]
           IN  /\ [after EXCEPT !.initialized = FALSE, !.used = FALSE] =
                      [before EXCEPT !.initialized = FALSE, !.used = FALSE]
               /\ before.initialized => after.initialized
               /\ before.used => after.used

\* C14: in every state of an analysis the table has at most one symbol per
\* name, and every step keeps the symbols already inserted, unreplaced, with
\* flags that only go from false to true.
C14_UniqueNamesMonotoneFlags == []UniqueNames /\ [][SymbolsKept]_vars

\* Two symbols, one of them initialized and used, while statements remain to
\* be visited.
C14_Witness ==
    /\ analyzer # Absent
    /\ analyzer.status = "visiting"
    /\ hist.next <= Len(hist.ast.statements)
    /\ Len(SymbolsNow) = 2
    /\ \E i \in 1..2 : SymbolsNow[i].initialized /\ SymbolsNow[i].used
    /\ analyzer.self.errors # <<>>

(***************************************************************************)
(* Compiler runs: compile() is called on one Compiler, once or several     *)
(* times, each call running one stage at a time.                           *)
(***************************************************************************)
MaxCompiles == 2

SrcEmpty ==
    <<>>

SrcBlankThenComment ==
    <<" ", "\t", "\r", "\n", "/", "/", " ", "c">>

SrcCommentThenBlank ==
    <<"/", "/", " ", "c", "\n", "\n">>

SrcCommentOnly ==
    <<"/", "/">>

SrcTwoComments ==
    <<"/", "/", "a", "\r", "\n", "\t", "/", "/", "/", " ", "b", "\n">>

SrcUninitializedRead ==
    <<"v", "a", "r", " ", "x", ";", " ", "p", "r", "i", "n", "t", "(", "x",
      ")", ";">>

SrcUndeclaredTarget ==
    <<"y", " ", "=", " ", "1", ";">>

SrcAssignedNeverRead ==
    <<"v", "a", "r", " ", "x", ";", " ", "x", " ", "=", " ", "1", ";">>

SrcIfElse ==
    <<"v", "a", "r", " ", "a", ";", " ", "a", " ", "=", " ", "1", ";", "\n",
      "i", "f", " ", "(", "a", " ", ">", " ", "0", ")", " ", "{", " ", "p",
      "r", "i", "n", "t", "(", "1", ")", ";", " ", "}", " ", "e", "l", "s",
      "e", " ", "{", " ", "p", "r", "i", "n", "t", "(", "0", ")", ";", " ",
      "}">>

SrcWhile ==
    <<"v", "a", "r", " ", "i", ";", " ", "i", " ", "=", " ", "0", ";", "\n",
      "w", "h", "i", "l", "e", " ", "(", "i", " ", "<", " ", "3", ")", " ",
      "{", " ", "p", "r", "i", "n", "t", "(", "i", ")", ";", " ", "i", " ",
      "=", " ", "i", " ", "+", " ", "1", ";", " ", "}">>

SrcMissingOperand ==
    <<"x", " ", "=", " ", ";">>

SrcBadCharacter ==
    <<"v", "a", "r", " ", "x", ";", " ", "@">>

SrcTwoDots ==
    <<"v", "a", "r", " ", "x", ";", " ", "x", " ", "=", " ", "3", ".", "1",
      "4", ".", "5", ";">>

SrcRedeclared ==
    <<"v", "a", "r", " ", "x", ";", "\n", "v", "a", "r", " ", "x", ";">>

CompileExamples ==
    {SrcEmpty, SrcBlankThenComment, SrcCommentThenBlank, SrcCommentOnly,
     SrcTwoComments, SrcUninitializedRead,
     SrcUndeclaredTarget, SrcAssignedNeverRead, SrcIfElse, SrcWhile,
     SrcMissingOperand, SrcBadCharacter, SrcTwoDots, SrcRedeclared}

CompilerRun(r) == [self |-> r.self, pc |-> r.pc, verbose |-> r.verbose, val |-> r.val,
                   report |-> r.report]

\* The call in progress, put together from the Compiler and the locals.
RunNow ==
    [self |-> compiler.self, pc |-> compiler.pc, verbose |-> compiler.verbose,
     lexer |-> lexer, parser |-> parser, analyzer |-> analyzer, generator |-> generator,
     val |-> compiler.val, report |-> compiler.report]

CompileInit ==
    /\ compiler = [self |-> Compiler, pc |-> "idle", verbose |-> FALSE, val |-> "None",
                   report |-> ""]
    /\ lexer = Absent
    /\ parser = Absent
    /\ analyzer = Absent
    /\ generator = Absent
    /\ hist = [calls |-> 0, log |-> <<>>]

\* What a step of compile() leaves: the Compiler, the locals, and in the log
\* every call that has returned.
CompileStep(r) ==
    /\ compiler' = CompilerRun(r)
    /\ lexer' = r.lexer
    /\ parser' = r.parser
    /\ analyzer' = r.analyzer
    /\ generator' = r.generator
    /\ hist' = IF r.pc = "done" THEN [hist EXCEPT !.log = Append(@, r)] ELSE hist

CompileEnter ==
    /\ compiler.pc \in {"idle", "done"}
    /\ hist.calls < MaxCompiles
    /\ \E source_code \in CompileExamples, verbose \in BOOLEAN :
           /\ compiler' = CompilerRun(compile_enter(compiler.self, source_code, verbose))
           /\ lexer' = Absent
           /\ parser' = Absent
           /\ analyzer' = Absent
           /\ generator' = Absent
           /\ hist' = [hist EXCEPT !.calls = @ + 1]

CompileLexer == compiler.pc = "lexer" /\ CompileStep(compile_lexer(RunNow))

CompileParser == compiler.pc = "parser" /\ CompileStep(compile_parser(RunNow))

CompileAnalyzer == compiler.pc = "analyzer" /\ CompileStep(compile_analyzer(RunNow))

CompileGenerator == compiler.pc = "generator" /\ CompileStep(compile_generator(RunNow))

CompileNext ==
    CompileEnter \/ CompileLexer \/ CompileParser \/ CompileAnalyzer \/ CompileGenerator

SpecCompile == CompileInit /\ [][CompileNext]_vars

Started(stage) == stage # Absent

LexerCompleted == Started(lexer) /\ lexer.status = "returned"

ParserCompleted == Started(parser) /\ parser.exc = "none"

AnalyzerCompleted == Started(analyzer) /\ analyzer.exc = "none"

GeneratorCompleted == Started(generator) /\ generator.exc = "none"

Compiling == compiler # Absent

\* C15: in every state of a compile() call, a stage has started only if the
\* stage before it completed without error, in the order lexer, parser,
\* analyzer, generator; a call that returned False is reported as the kind of
\* the stage that failed; a call returns True exactly if all four completed.
C15_StagesInOrderFailureByKind ==
    Compiling =>
        /\ Started(parser) => LexerCompleted
        /\ Started(analyzer) => ParserCompleted
        /\ Started(generator) => AnalyzerCompleted
        /\ compiler.val = "True" <=> (compiler.pc = "done" /\ GeneratorCompleted)
        /\ compiler.val = "False" <=>
               /\ compiler.pc = "done"
               /\ Started(lexer)
               /\ ~GeneratorCompleted
        /\ compiler.val = "False" =>
               /\ (Started(lexer) /\ ~LexerCompleted) => compiler.report = "ERROR LEXICO"
               /\ (Started(parser) /\ ~ParserCompleted) =>
                      compiler.report = "ERROR SINTACTICO"
               /\ (Started(analyzer) /\ ~AnalyzerCompleted) =>
                      compiler.report = "ERROR SEMANTICO"


Returned == Compiling /\ compiler.pc = "done"

\* C16: when a compile() call has returned False, after any calls before it
\* on the same Compiler, the Compiler holds what its constructor set for
\* every stage that did not complete in this call: no tokens, no AST, no
\* symbol table, no instructions.
C16_NoArtifactOfUncompletedStage ==
    (Returned /\ compiler.val = "False") =>
        /\ ~LexerCompleted => compiler.self.tokens = <<>>
        /\ ~ParserCompleted => compiler.self.ast = NoneNode
        /\ ~AnalyzerCompleted => compiler.self.symbol_table = NoneTable
        /\ ~GeneratorCompleted => compiler.self.intermediate_code = <<>>


\* What a returned call gave: whether it succeeded, the kind of its failure,
\* and the tokens, AST, symbol table and listing the Compiler then holds.
Given(call) ==
    [val |-> call.val, kind |-> IF call.val = "False" THEN call.report ELSE "",
     tokens |-> call.self.tokens, ast |-> call.self.ast,
     symbol_table |-> call.self.symbol_table,
     intermediate_code |-> call.self.intermediate_code]

\* C17: any two returned calls on the same source gave the same, and the
\* same as a call on that source on a new Compiler, whatever was compiled
\* before or between them.
C17_SameSourceSameResult ==
    Compiling =>
        \A i, j \in 1..Len(hist.log) :
            hist.log[i].self.source_code = hist.log[j].self.source_code =>
                /\ Given(hist.log[i]) = Given(hist.log[j])
                /\ Given(hist.log[i]) =
                       Given(compile(Compiler, hist.log[i].self.source_code, FALSE))

\* The same, for what the stages that completed in the call gave.
GivenByCompletedStages(call) ==
    [val |-> call.val, kind |-> IF call.val = "False" THEN call.report ELSE "",
     tokens |-> IF call.lexer # Absent /\ call.lexer.status = "returned"
                THEN call.self.tokens ELSE <<>>,
     ast |-> IF call.parser # Absent /\ call.parser.exc = "none"
             THEN call.self.ast ELSE NoneNode,
     symbol_table |-> IF call.analyzer # Absent /\ call.analyzer.exc = "none"
                      THEN call.self.symbol_table ELSE NoneTable,
     intermediate_code |-> IF call.generator # Absent /\ call.generator.exc = "none"
                           THEN call.self.intermediate_code ELSE <<>>]

SameSourceSameCompletedStages ==
    Compiling =>
        \A i, j \in 1..Len(hist.log) :
            hist.log[i].self.source_code = hist.log[j].self.source_code =>
                /\ GivenByCompletedStages(hist.log[i]) = GivenByCompletedStages(hist.log[j])
                /\ GivenByCompletedStages(hist.log[i]) =
                       GivenByCompletedStages(
                           compile(Compiler, hist.log[i].self.source_code, FALSE))


\* A text made only of spaces, tabs, carriage returns, newlines and line
\* comments, the last of which may end with the text.
RECURSIVE AfterLine(_)
AfterLine(src) ==
    IF src = <<>> THEN <<>>
    ELSE IF Head(src) = "\n" THEN Tail(src)
    ELSE AfterLine(Tail(src))

RECURSIVE BlankSource(_)
BlankSource(src) ==
    IF src = <<>> THEN TRUE
    ELSE IF Head(src) \in {" ", "\t", "\r", "\n"} THEN BlankSource(Tail(src))
    ELSE IF Len(src) >= 2 /\ src[1] = "/" /\ src[2] = "/" THEN BlankSource(AfterLine(src))
    ELSE FALSE

\* C18: a compile() call on a blank source, after any calls before it,
\* returns True and leaves a token list of one EOF token, a Program of no
\* statements, a symbol table of no symbols and an empty listing, and its
\* analyzer has no warnings and no errors.
C18_BlankSourceCompilesToNothing ==
    (Returned /\ BlankSource(compiler.self.source_code)) =>
        /\ compiler.val = "True"
        /\ Len(compiler.self.tokens) = 1
        /\ compiler.self.tokens[1].type = "EOF"
        /\ compiler.self.ast = ProgramNode(<<>>)
        /\ compiler.self.symbol_table = SymbolTable
        /\ compiler.self.intermediate_code = <<>>
        /\ AnalyzerCompleted
        /\ analyzer.self.warnings = <<>>
        /\ analyzer.self.errors = <<>>

\* A blank source with all four blank characters and a comment that ends
\* with the text has compiled on a Compiler that holds a listing before it.
C18_Witness ==
    /\ Returned
    /\ compiler.self.source_code = SrcBlankThenComment
    /\ compiler.val = "True"
    /\ compiler.self.intermediate_code = <<>>
    /\ Len(hist.log) = 2
    /\ hist.log[1].self.intermediate_code # <<>>


(***************************************************************************)
(* Expression visits: a SemanticAnalyzer visits the declarations of the    *)
(* names an expression may read, then the expression, and the type the     *)
(* visit returns is kept.                                                  *)
(***************************************************************************)
MaxTypeOps == 2

TypeNames == <<"a", "b">>

\* z is read and never declared.
TypeLeaves ==
    {Num(1), NumberNode(FloatValue(2, <<5>>), 1), Ident("a"), Ident("z")}

\* The expression trees with exactly k operator nodes.
RECURSIVE TypeTrees(_)
TypeTrees(k) ==
    IF k = 0 THEN TypeLeaves
    ELSE {Neg(e) : e \in TypeTrees(k - 1)}
         \cup UNION {{Bin(op, l, r) : op \in {<<"+">>, <<"<">>},
                                      l \in TypeTrees(i), r \in TypeTrees(k - 1 - i)} :
                     i \in 0..(k - 1)}

\* 1 < 2 < 3
ChainedComparison == Bin(<<"<">>, Bin(<<"<">>, Num(1), Num(2)), Num(3))

\* (a < b) + 1 + 1
ComparisonInSum ==
    Bin(<<"+">>, Bin(<<"+">>, Bin(<<"<">>, Ident("a"), Ident("b")), Num(1)), Num(1))

TypeExamples == {ChainedComparison, ComparisonInSum}

TypeExpressions == UNION {TypeTrees(k) : k \in 0..MaxTypeOps} \cup TypeExamples

TypeInit ==
    /\ analyzer = [self |-> SemanticAnalyzer, status |-> "declaring", val |-> NoType,
                   exc |-> "none"]
    /\ \E e \in TypeExpressions : hist = [expression |-> e, declared |-> 0]
    /\ lexer = Absent
    /\ parser = Absent
    /\ generator = Absent
    /\ compiler = Absent

TypeDeclare ==
    /\ analyzer.status = "declaring"
    /\ hist.declared < Len(TypeNames)
    /\ analyzer' =
           [analyzer EXCEPT
               !.self = Sem_visit(@, VarDeclarationNode(<<TypeNames[hist.declared + 1]>>,
                                                       1)).self]
    /\ hist' = [hist EXCEPT !.declared = @ + 1]
    /\ UNCHANGED <<lexer, parser, generator, compiler>>

TypeVisit ==
    /\ analyzer.status = "declaring"
    /\ hist.declared = Len(TypeNames)
    /\ LET visited == Sem_visit(analyzer.self, hist.expression)
       IN  analyzer' = [self |-> visited.self, status |-> "visited",
                        val |-> visited.val, exc |-> visited.exc]
    /\ hist' = hist
    /\ UNCHANGED <<lexer, parser, generator, compiler>>

TypeNext == TypeDeclare \/ TypeVisit

SpecTypes == TypeInit /\ [][TypeNext]_vars

TypeDeclared == {<<TypeNames[i]>> : i \in 1..Len(TypeNames)}

\* The operand errors among the errors of a visit.
OperandErrorsOf(errors) ==
    SelectSeq(errors, LAMBDA text : \E i \in 1..Len(text) :
                  text[i] \in {"' requiere operandos numericos.",
                               "' requiere operandos comparables.",
                               "' requiere operando numerico."})

\* C19: the visit of an expression returns the type the rules give it (a
\* Number int or float; + over operands that are int, float or unknown
\* float if one is float and int otherwise; < over such operands bool; a
\* unary - its operand's type; a node with a bool operand unknown), and
\* reports an operand error at exactly the nodes with a bool operand, after
\* the errors of the operands; 1 < 2 < 3 and (a < b) + 1 + 1 each report
\* exactly one error.
C19_TypeRules ==
    analyzer.status = "visited" =>
        /\ analyzer.exc = "none"
        /\ analyzer.val = TypeOf(hist.expression)
        /\ analyzer.self.errors = ExprErrors(hist.expression, TypeDeclared)
        /\ hist.expression.node = "BinaryOpNode" =>
               Len(OperandErrorsOf(analyzer.self.errors)) =
                   Len(OperandErrorsOf(ExprErrors(hist.expression.left, TypeDeclared)))
                   + Len(OperandErrorsOf(ExprErrors(hist.expression.right, TypeDeclared)))
                   + (IF "bool" \in {TypeOf(hist.expression.left),
                                     TypeOf(hist.expression.right)}
                      THEN 1 ELSE 0)
        /\ hist.expression \in TypeExamples => Len(analyzer.self.errors) = 1

\* (a < b) + 1 + 1 has been visited: the inner sum is in error and unknown,
\* the outer sum takes it as an operand without error and is int.
C19_Witness ==
    /\ analyzer.status = "visited"
    /\ hist.expression = ComparisonInSum
    /\ analyzer.val = "int"
    /\ Len(analyzer.self.errors) = 1


(***************************************************************************)
(* Operators of one and two characters.                                    *)
(***************************************************************************)
OperatorWithEqual ==
    "=" :> "EQUAL" @@ "!" :> "NOT_EQUAL" @@ "<" :> "LESS_EQUAL" @@ ">" :> "GREATER_EQUAL"

OperatorAlone == "=" :> "ASSIGN" @@ "<" :> "LESS_THAN" @@ ">" :> "GREATER_THAN"

\* A main-loop iteration entered at =, !, < or >: with = next, one token of
\* the two characters is appended and the cursor passes both; otherwise a !
\* raises LexicalError and appends nothing, and =, < or > is appended as a
\* token of one character.
OperatorStep ==
    (/\ lexer.status = "running"
     /\ current_char(lexer) \in DOMAIN OperatorWithEqual) =>
        LET char == current_char(lexer)
            here(type, text) == Token(type, StrValue(text), lexer.line, lexer.column)
        IN  IF peek_char(lexer) = "="
            THEN /\ lexer'.status = "running"
                 /\ lexer'.tokens =
                        Append(lexer.tokens, here(OperatorWithEqual[char], <<char, "=">>))
                 /\ lexer'.position = lexer.position + 2
                 /\ lexer'.column = lexer.column + 2
            ELSE IF char = "!"
            THEN /\ lexer'.status = "LexicalError"
                 /\ lexer'.tokens = lexer.tokens
            ELSE /\ lexer'.status = "running"
                 /\ lexer'.tokens = Append(lexer.tokens, here(OperatorAlone[char], <<char>>))
                 /\ lexer'.position = lexer.position + 1

TokenTypes == [i \in 1..Len(lexer.tokens) |-> lexer.tokens[i].type]

Tokenized(src, types) ==
    (LexFinished /\ lexer.source_code = src) =>
        lexer.status = "returned" /\ TokenTypes = types

OperatorExamples ==
    /\ Tokenized(<<"=", "=", "=">>, <<"EQUAL", "ASSIGN", "EOF">>)
    /\ Tokenized(<<"<", "=", "=">>, <<"LESS_EQUAL", "ASSIGN", "EOF">>)
    /\ Tokenized(<<"=", "=", "=", "=">>, <<"EQUAL", "EQUAL", "EOF">>)
    /\ Tokenized(<<">", "=", "<", "=">>, <<"GREATER_EQUAL", "LESS_EQUAL", "EOF">>)
    /\ Tokenized(<<"!", "=", "=">>, <<"NOT_EQUAL", "ASSIGN", "EOF">>)
    /\ Tokenized(<<"=", " ", "=">>, <<"ASSIGN", "ASSIGN", "EOF">>)
    /\ Tokenized(<<"<", "\t", "=">>, <<"LESS_THAN", "ASSIGN", "EOF">>)
    /\ Tokenized(<<">", "\r", "=">>, <<"GREATER_THAN", "ASSIGN", "EOF">>)
    /\ Tokenized(<<"<", "\n", "=">>, <<"LESS_THAN", "ASSIGN", "EOF">>)
    /\ (LexFinished /\ lexer.source_code \in {<<"!">>, <<"!", " ", "=">>, <<"!", "\n", "=">>,
                                              <<"=", "!">>, <<"!", "<">>, <<"!", "!", "=">>})
           => lexer.status = "LexicalError"

\* C20: at every cursor position the lexer takes ==, !=, <= or >= as one
\* token before the one-character operator it starts with, left to right; a
\* ! with no = right after it raises LexicalError; characters separated by
\* whitespace are separate tokens.
C20_TwoCharacterOperatorsFirst == [][OperatorStep]_vars /\ []OperatorExamples

\* <== has been tokenized: LESS_EQUAL from column 1, ASSIGN at column 3.
C20_Witness ==
    /\ lexer # Absent
    /\ lexer.status = "returned"
    /\ lexer.source_code = <<"<", "=", "=">>
    /\ TokenTypes = <<"LESS_EQUAL", "ASSIGN", "EOF">>
    /\ lexer.tokens[2].column = 3


(***************************************************************************)
(* Identifiers, keywords and characters the lexer does not know.           *)
(***************************************************************************)
IdentifierStart ==
    {"a", "b", "c", "d", "e", "f", "h", "i", "l", "n", "p", "r", "s", "t",
     "v", "w", "x", "y", "z", "A", "F", "I", "L", "V", "_"}

IdentifierCharacters ==
    IdentifierStart \cup {"0", "1", "2", "3", "4", "5", "6", "7", "8", "9"}

KeywordOf ==
    <<"v", "a", "r">> :> "VAR" @@ <<"i", "f">> :> "IF" @@
    <<"e", "l", "s", "e">> :> "ELSE" @@ <<"w", "h", "i", "l", "e">> :> "WHILE" @@
    <<"p", "r", "i", "n", "t">> :> "PRINT"

KnownCharacters ==
    IdentifierCharacters
        \cup {" ", "\t", "\r", "\n"}
        \cup {"+", "-", "*", "/", "=", ";", "(", ")", "{", "}", "<", ">", "!"}

\* A main-loop iteration entered at a character that is none of the known
\* ones raises LexicalError and appends no token.
UnknownCharacterStep ==
    (/\ lexer.status = "running"
     /\ current_char(lexer) # NoChar
     /\ current_char(lexer) \notin KnownCharacters) =>
        lexer'.status = "LexicalError" /\ lexer'.tokens = lexer.tokens

\* The tokens made from words: an IDENTIFIER or keyword token holds
\* identifier characters only, the first not a digit, and is a keyword token
\* exactly if its text is one of the five keywords as written.
WordTokens ==
    \A i \in 1..Len(lexer.tokens) :
        LET t == lexer.tokens[i]
        IN  t.value.tag = "str" /\ t.type \in {"IDENTIFIER", "VAR", "IF", "ELSE", "WHILE",
                                               "PRINT"} =>
                /\ t.value.text # <<>>
                /\ \A k \in 1..Len(t.value.text) : t.value.text[k] \in IdentifierCharacters
                /\ t.value.text[1] \in IdentifierStart
                /\ t.type = IF t.value.text \in DOMAIN KeywordOf
                            THEN KeywordOf[t.value.text] ELSE "IDENTIFIER"

\* C21: identifiers are made of A-Z, a-z, 0-9 and underscore only, not
\* starting with a digit; a word is a keyword token only if it is exactly
\* var, if, else, while or print; and the lexer raises LexicalError at every
\* character that is not whitespace, a digit, an identifier character or an
\* operator or punctuation character, a letter outside ASCII included.
C21_AsciiIdentifiersUnknownCharactersRaise ==
    [][UnknownCharacterStep]_vars /\ [](lexer # Absent => WordTokens)


(***************************************************************************)
(* Positions of tokens, counted from the text.                             *)
(***************************************************************************)
\* The newlines among the first n characters of a text.
NewlinesBefore(src, n) == {i \in 1..n : src[i] = "\n"}

\* Line and column of the character after the first n characters.
LineAt(src, n) == 1 + Cardinality(NewlinesBefore(src, n))

ColumnAt(src, n) ==
    LET nl == NewlinesBefore(src, n)
        last == IF nl = {} THEN 0 ELSE CHOOSE i \in nl : \A j \in nl : j <= i
    IN  n - last + 1

\* A main-loop iteration that appends a token appends one, positioned at the
\* character the iteration was entered at, the first of the lexeme.
PositionStep ==
    (/\ lexer.status = "running"
     /\ current_char(lexer) # NoChar
     /\ lexer'.tokens # lexer.tokens) =>
        /\ Len(lexer'.tokens) = Len(lexer.tokens) + 1
        /\ Front(lexer'.tokens) = lexer.tokens
        /\ Last(lexer'.tokens).line = LineAt(lexer.source_code, lexer.position)
        /\ Last(lexer'.tokens).column = ColumnAt(lexer.source_code, lexer.position)

LinesWithinSource ==
    lexer # Absent =>
        \A i \in 1..Len(lexer.tokens) :
            /\ lexer.tokens[i].line \in 1..EndLine(lexer.source_code)
            /\ lexer.tokens[i].column >= 1

\* C22: every token carries the line and column of the first character of
\* its lexeme, the line being 1 plus the newlines before that character and
\* the column 1 plus the characters between the preceding newline (or the
\* start) and it, a tab or carriage return counting one; so every token
\* line lies between 1 and the number of lines of the source.
C22_TokenPositionsFromText == [][PositionStep]_vars /\ []LinesWithinSource

\* A returned list holds an identifier of two characters on line 2 at
\* column 2.
C22_Witness ==
    /\ lexer # Absent
    /\ lexer.status = "returned"
    /\ \E i \in 1..Len(lexer.tokens) :
           /\ lexer.tokens[i].type = "IDENTIFIER"
           /\ lexer.tokens[i].line = 2
           /\ lexer.tokens[i].column = 2
           /\ Len(lexer.tokens[i].value.text) = 2

\* The same for the statements of the AST a compile() call parsed, those in
\* blocks included: the line of each statement node is a line of the source.
NodeLinesWithinSource ==
    (Compiling /\ ParserCompleted) =>
        \A pl \in ProgramPlaces(parser.val) :
            pl.at.line \in 1..EndLine(compiler.self.source_code)


(***************************************************************************)
(* The warnings of the table at the end of an analysis.                    *)
(***************************************************************************)
UsedUninitializedText(name, line) ==
    <<"Advertencia: Variable '">> \o name
        \o <<"' usada en el programa ",
             "pero podria no estar inicializada (declarada en linea ">>
        \o DecimalText(line) \o <<").">>

\* The warnings one symbol calls for.
WarningsOfSymbol(symbol) ==
    IF ~symbol.used THEN <<NeverUsedText(symbol.name, symbol.line)>>
    ELSE IF ~symbol.initialized THEN <<UsedUninitializedText(symbol.name, symbol.line)>>
    ELSE <<>>

RECURSIVE WarningsOfSymbols(_)
WarningsOfSymbols(symbols) ==
    IF symbols = <<>> THEN <<>>
    ELSE WarningsOfSymbol(Head(symbols)) \o WarningsOfSymbols(Tail(symbols))

\* The step of analyze() that calls get_warnings(): the table is as before,
\* and the warnings are those of the traversal followed by the table's.
GetWarningsStep ==
    (/\ analyzer.status = "visiting"
     /\ hist.next > Len(hist.ast.statements)) =>
        /\ analyzer'.self.symbol_table = analyzer.self.symbol_table
        /\ analyzer'.self.warnings =
               analyzer.self.warnings \o WarningsOfSymbols(analyzer.self.symbol_table.symbols)
        /\ \A i \in 1..Len(SymbolsNow) :
               Len(WarningsOfSymbol(SymbolsNow[i])) <= 1

\* C23: get_warnings() changes no symbol and no flag and returns, in
\* insertion order, one never-used warning for each symbol with used false,
\* one may-be-uninitialized warning for each symbol used and not
\* initialized, and nothing for a symbol used and initialized; no symbol
\* yields both.
C23_GetWarningsPureOnePerSymbol == [][GetWarningsStep]_vars

\* An analysis has ended on a table with a symbol never used and one used
\* and not initialized, with a warning for each after the warning of the
\* traversal.
C23_Witness ==
    /\ AnalysisEnded
    /\ \E i, j \in 1..Len(SymbolsNow) :
           /\ ~SymbolsNow[i].used /\ ~SymbolsNow[i].initialized
           /\ SymbolsNow[j].used /\ ~SymbolsNow[j].initialized
    /\ Len(analyzer.self.warnings) = 3


(***************************************************************************)
(* Repeated analyses: analyze() is called several times, each time on the  *)
(* analyzer at hand or on one constructed anew, and each call is logged    *)
(* with the analyzer before and after it.                                  *)
(***************************************************************************)
MaxReuseStmts == 2

MaxAnalyses == 2

ReuseStatementLists ==
    UNION {{[i \in 1..n |-> SemForms(i)[f[i]]] : f \in [1..n -> 1..Len(SemForms(1))]} :
           n \in 0..MaxReuseStmts}

ReusePrograms ==
    {ProgramNode(statements) : statements \in ReuseStatementLists} \cup SemExamples

\* Another program, analyzed between or after the analyses of the one at hand.
ReuseOther ==
    ProgramNode(<<VarDeclarationNode(<<"y">>, 1),
                  AssignmentNode(<<"y">>, NumberNode(IntValue(1), 2), 2),
                  PrintNode(IdentifierNode(<<"y">>, 3), 3)>>)

Constructed == [self |-> SemanticAnalyzer, status |-> "constructed", exc |-> "none",
                text |-> <<>>]

ReuseInit ==
    /\ analyzer = Constructed
    /\ \E ast \in ReusePrograms : hist = [ast |-> ast, calls |-> 0, log |-> <<>>]
    /\ lexer = Absent
    /\ parser = Absent
    /\ generator = Absent
    /\ compiler = Absent

\* SemanticAnalyzer() whose table is the one of the analyzer before it.
NewAnalyzerSharedTable ==
    /\ analyzer.status # "constructed"
    /\ hist.calls < MaxAnalyses
    /\ analyzer' = [Constructed EXCEPT !.self.symbol_table = analyzer.self.symbol_table]
    /\ UNCHANGED <<hist, lexer, parser, generator, compiler>>

\* analyzer = SemanticAnalyzer()
NewAnalyzer ==
    /\ analyzer.status # "constructed"
    /\ hist.calls < MaxAnalyses
    /\ analyzer' = Constructed
    /\ UNCHANGED <<hist, lexer, parser, generator, compiler>>

\* analyzer.analyze(ast), caught if it raises.
AnalyzeCall ==
    /\ hist.calls < MaxAnalyses
    /\ \E ast \in {hist.ast, ReuseOther} :
           LET r == analyze(analyzer.self, ast)
           IN  /\ analyzer' = Analyzed(r)
               /\ hist' = [hist EXCEPT
                              !.calls = @ + 1,
                              !.log = Append(@, [ast |-> ast,
                                                 fresh |-> analyzer.status = "constructed",
                                                 before |-> analyzer.self,
                                                 after |-> r.self,
                                                 exc |-> r.exc])]
    /\ UNCHANGED <<lexer, parser, generator, compiler>>

ReuseNext == NewAnalyzer \/ AnalyzeCall

SpecReuse == ReuseInit /\ [][ReuseNext]_vars

Reusing == analyzer # Absent /\ hist # <<>> /\ "log" \in DOMAIN hist

\* What an analysis gave: how it ended, its errors and warnings, and the
\* names, lines and flags of the table in insertion order.
Outcome(call) ==
    [exc |-> call.exc, errors |-> call.after.errors, warnings |-> call.after.warnings,
     symbols |-> [i \in 1..Len(call.after.symbol_table.symbols) |->
                     LET symbol == call.after.symbol_table.symbols[i]
                     IN  [name |-> symbol.name, line |-> symbol.line,
                          initialized |-> symbol.initialized, used |-> symbol.used]]]

SameOutcomeOnNewAnalyzers ==
    Reusing =>
        \A i, j \in 1..Len(hist.log) :
            (/\ hist.log[i].fresh /\ hist.log[j].fresh
             /\ hist.log[i].ast = hist.log[j].ast) =>
                Outcome(hist.log[i]) = Outcome(hist.log[j])

Declarations(ast) == SelectSeq(Events(ast.statements), LAMBDA ev : ev.kind = "declare")

IsRedeclarationError(text) ==
    /\ Len(text) >= 3
    /\ text[1] = "Error semantico: Variable '"
    /\ text[3] = "' ya declarada en linea "

\* One analysis on the analyzer it was given: the symbols the analyzer held
\* are still there, in place, with their lines and with no flag cleared;
\* each declaration of the program either added a symbol or is one
\* redeclaration error of this call, and a declaration of a name the
\* analyzer held is such an error naming the line the analyzer held, so the
\* call raised SemanticError; the warnings of the table appear once.
AnalysisOnKeptTable(call) ==
    LET held == call.before.symbol_table.symbols
        now == call.after.symbol_table.symbols
        decls == Declarations(call.ast)
    IN  /\ Len(now) >= Len(held)
        /\ \A i \in 1..Len(held) :
               /\ now[i].name = held[i].name
               /\ now[i].line = held[i].line
               /\ held[i].initialized => now[i].initialized
               /\ held[i].used => now[i].used
        /\ Len(SelectSeq(call.after.errors, IsRedeclarationError))
               = Len(decls) - (Len(now) - Len(held))
        /\ \A k \in 1..Len(decls), i \in 1..Len(held) :
               decls[k].name = held[i].name =>
                   /\ call.exc = "SemanticError"
                   /\ \E n \in 1..Len(call.after.errors) :
                          call.after.errors[n] =
                              RedeclarationText(held[i].name, held[i].line, decls[k].line)
        /\ SelectSeq(call.after.warnings, LAMBDA w : ~IsReadWarning(w))
               = WarningsOfSymbols(now)

\* C29: analyze() empties the error and warning lists and keeps the symbol
\* table, so on an analyzer used before every symbol of the earlier calls
\* is still there with its flags, and an AST that declares one of those
\* names again - the same AST a second time, for one - is reported as a
\* redeclaration and raises SemanticError, though the first call succeeded.
C29_AnalyzeKeepsSymbolTable ==
    Reusing => \A n \in 1..Len(hist.log) : AnalysisOnKeptTable(hist.log[n])

\* The same program was analyzed twice on one analyzer: the first call
\* returned, with a warning, the second raised with the redeclaration alone.
C29_Witness ==
    /\ Reusing
    /\ Len(hist.log) = 2
    /\ ~hist.log[2].fresh
    /\ hist.log[1].ast = hist.log[2].ast
    /\ hist.log[1].exc = "none"
    /\ hist.log[1].after.warnings # <<>>
    /\ hist.log[2].exc = "SemanticError"
    /\ Len(hist.log[2].after.errors) = 1


(***************************************************************************)
(* The right-hand side of an assignment.                                   *)
(***************************************************************************)
\* The visit of a top-level Assignment, whatever its target: every
\* identifier its expression reads is afterwards marked used if the table
\* held it, and reported as undeclared by one of the errors of this visit if
\* not.
RightHandSideStep ==
    (/\ analyzer.status = "visiting"
     /\ hist.next <= Len(hist.ast.statements)
     /\ hist.ast.statements[hist.next].node = "AssignmentNode") =>
        LET st == hist.ast.statements[hist.next]
            reads == Reads(st.expression)
            held == analyzer.self.symbol_table
        IN  \A k \in 1..Len(reads) :
                IF exists(held, reads[k].name)
                THEN lookup(analyzer'.self.symbol_table, reads[k].name).used
                ELSE \E n \in (Len(analyzer.self.errors) + 1)..Len(analyzer'.self.errors) :
                         analyzer'.self.errors[n] =
                             UndeclaredText(reads[k].name, reads[k].line)

\* C25: the analyzer visits the right-hand expression of every Assignment,
\* whether or not the target is declared: an undeclared identifier read
\* there is reported and a declared one is marked used, so y = z; with
\* neither declared reports two errors and var a; y = a; leaves a used.
C25_RightHandSideAlwaysVisited == [][RightHandSideStep]_vars


(***************************************************************************)
(* Front-end runs: a source is tokenized one main-loop iteration at a      *)
(* time, a Parser is constructed on the tokens, and parse() is run one     *)
(* iteration of its statement loop at a time.                              *)
(***************************************************************************)
MaxTokens == 2

LexemeOf ==
    "IDENTIFIER" :> <<"a">> @@ "NUMBER" :> <<"1">> @@ "VAR" :> <<"v", "a", "r">> @@
    "IF" :> <<"i", "f">> @@ "ELSE" :> <<"e", "l", "s", "e">> @@
    "WHILE" :> <<"w", "h", "i", "l", "e">> @@ "PRINT" :> <<"p", "r", "i", "n", "t">> @@
    "ASSIGN" :> <<"=">> @@ "SEMICOLON" :> <<";">> @@ "LPAREN" :> <<"(">> @@
    "RPAREN" :> <<")">> @@ "LBRACE" :> <<"{">> @@ "RBRACE" :> <<"}">> @@
    "MINUS" :> <<"-">> @@ "MULTIPLY" :> <<"*">> @@ "LESS_THAN" :> <<"<">>

\* The lexemes of the token types, one space after each.
RECURSIVE SourceOf(_)
SourceOf(types) ==
    IF types = <<>> THEN <<>>
    ELSE LexemeOf[Head(types)] \o <<" ">> \o SourceOf(Tail(types))

\* if (a < 1) { print(a); } else { a = -a * 1; }
FrontIfElse ==
    <<"IF", "LPAREN", "IDENTIFIER", "LESS_THAN", "NUMBER", "RPAREN", "LBRACE",
      "PRINT", "LPAREN", "IDENTIFIER", "RPAREN", "SEMICOLON", "RBRACE", "ELSE",
      "LBRACE", "IDENTIFIER", "ASSIGN", "MINUS", "IDENTIFIER", "MULTIPLY", "NUMBER",
      "SEMICOLON", "RBRACE">>

\* var a; while ((a)) { a = a - 1; }
FrontWhile ==
    <<"VAR", "IDENTIFIER", "SEMICOLON", "WHILE", "LPAREN", "LPAREN", "IDENTIFIER",
      "RPAREN", "RPAREN", "LBRACE", "IDENTIFIER", "ASSIGN", "IDENTIFIER", "MINUS",
      "NUMBER", "SEMICOLON", "RBRACE">>

\* The programs above cut after any token.
FrontPrefixes ==
    UNION {{SubSeq(types, 1, n) : n \in 0..Len(types)} : types \in {FrontIfElse, FrontWhile}}

FrontTypes == SeqsUpTo(DOMAIN LexemeOf, MaxTokens) \cup FrontPrefixes

FrontParser(tokens) ==
    [self |-> Parser(tokens), status |-> "constructed", exc |-> "none", val |-> <<>>]

\* Sources with comments and newlines, and sources the lexer rejects.
FrontTexts ==
    {<<"/", "/", "a", "\n", "\t", "a", "\r", "\n">>,
     <<"a", " ", "@">>,
     <<"3", ".", "4", ".", "5">>,
     <<"a", "\n", "!", "a">>}

FrontSources == {SourceOf(types) : types \in FrontTypes} \cup FrontTexts

FrontInit ==
    /\ \E src \in FrontSources : lexer = Lexer(src)
    /\ parser = Absent
    /\ analyzer = Absent
    /\ generator = Absent
    /\ compiler = Absent
    /\ hist = <<>>

\* parser = Parser(tokens)
FrontConstruct ==
    /\ lexer.status = "returned"
    /\ parser = Absent
    /\ parser' = FrontParser(lexer.tokens)
    /\ UNCHANGED <<lexer, analyzer, generator, compiler, hist>>

\* parse() entered: statements = [].
FrontParseEnter ==
    /\ parser # Absent
    /\ parser.status = "constructed"
    /\ parser' = [parser EXCEPT !.status = "parsing"]
    /\ UNCHANGED <<lexer, analyzer, generator, compiler, hist>>

\* One iteration of the statement loop of parse().
FrontParseStatement ==
    /\ parser # Absent
    /\ parser.status = "parsing"
    /\ parser.self.current_token # NoneToken
    /\ parser.self.current_token.type # "EOF"
    /\ LET stmt == parse_statement(parser.self)
       IN  parser' = IF stmt.exc # "none"
                     THEN [self |-> stmt.self, status |-> "raised", exc |-> stmt.exc,
                           val |-> parser.val]
                     ELSE [parser EXCEPT !.self = stmt.self, !.val = Append(@, stmt.val)]
    /\ UNCHANGED <<lexer, analyzer, generator, compiler, hist>>

\* The exit of the statement loop: return ProgramNode(statements).
FrontParseReturn ==
    /\ parser # Absent
    /\ parser.status = "parsing"
    /\ ~(parser.self.current_token # NoneToken /\ parser.self.current_token.type # "EOF")
    /\ parser' = [parser EXCEPT !.status = "returned"]
    /\ UNCHANGED <<lexer, analyzer, generator, compiler, hist>>

FrontNext ==
    \/ LexEnter
    \/ LexIteration
    \/ LexReturn
    \/ FrontConstruct
    \/ FrontParseEnter
    \/ FrontParseStatement
    \/ FrontParseReturn

SpecFront == FrontInit /\ [][FrontNext]_vars


\* The parser of a token list with its cursor on the token after the first k.
ParserAt(tokens, k) ==
    [Parser(tokens) EXCEPT !.position = k, !.current_token = tokens[k + 1]]

\* The cursor is on a token of the list and nothing but SyntaxError is raised.
OnToken(r) ==
    /\ r.self.current_token # NoneToken
    /\ r.self.position < Len(r.self.tokens)
    /\ r.exc \in {"none", "SyntaxError"}

\* Every parsing method entered with the cursor on the token after the first
\* k: the statement methods through parse_statement, the block loops, the
\* else part and the expression methods.
OnTokenAfterCallsAt(tokens, k) ==
    LET p == ParserAt(tokens, k)
    IN  /\ OnToken(parse_statement(p))
        /\ OnToken(parse_block(p, <<>>))
        /\ OnToken(parse_else(p))
        /\ OnToken(parse_expression(p))
        /\ OnToken(parse_term(p))
        /\ OnToken(parse_factor(p))
        /\ OnToken(parse_unary(p))
        /\ OnToken(parse_primary(p))

\* C26: on a token list that ends with EOF, parse() never moves the cursor
\* past the EOF token: after every iteration of the statement loop, and
\* after every parsing method entered at any token of the list, the current
\* token is a token of the list, so no method reads a missing token and
\* expect() never meets the end of input; parse() returns with the cursor on
\* EOF or raises SyntaxError.
C26_CursorNeverPastEOF ==
    (parser # Absent /\ "val" \in DOMAIN parser /\ lexer # Absent) =>
        /\ Last(parser.self.tokens).type = "EOF"
        /\ OnToken(parser)
        /\ parser.status = "returned" => parser.self.current_token.type = "EOF"
        /\ \A k \in 0..(Len(parser.self.tokens) - 1) :
               OnTokenAfterCallsAt(parser.self.tokens, k)

\* parse() raised SyntaxError with the cursor on EOF, inside the else block
\* of an if whose text ends there.
C26_Witness ==
    /\ parser # Absent
    /\ "val" \in DOMAIN parser
    /\ lexer # Absent
    /\ parser.status = "raised"
    /\ parser.exc = "SyntaxError"
    /\ parser.self.current_token.type = "EOF"
    /\ parser.self.position >= 15
    /\ parser.self.tokens[14].type = "ELSE"


FrontFinished ==
    \/ lexer.status \in {"LexicalError", "ValueError"}
    \/ parser # Absent /\ parser.status \in {"returned", "raised"}

\* The iteration of the lexer's main loop entered at the current character
\* passes at least one character or raises; the iteration of the statement
\* loop of parse() entered at the current token passes at least one token
\* or raises.
IterationProgress ==
    /\ (lexer.status = "running" /\ current_char(lexer) # NoChar) =>
           \/ tokenize_iteration(lexer).position > lexer.position
           \/ tokenize_iteration(lexer).status \in {"LexicalError", "ValueError"}
    /\ (parser # Absent /\ parser.status = "parsing"
            /\ parser.self.current_token.type # "EOF") =>
           \/ parse_statement(parser.self).self.position > parser.self.position
           \/ parse_statement(parser.self).exc # "none"

\* The cursors stay within the text and the token list, and a run that has
\* not ended has a step to take.
CursorsBounded ==
    /\ lexer.position <= Len(lexer.source_code)
    /\ parser # Absent => parser.self.position < Len(parser.self.tokens)
    /\ ~FrontFinished =>
           \/ lexer.status \in {"constructed", "running"}
           \/ lexer.status = "returned" /\ parser = Absent
           \/ parser # Absent /\ parser.status \in {"constructed", "parsing"}

Progress(p, r) == r.exc # "none" \/ r.self.position > p.position

\* The iterations of the loops inside parse(), entered with the cursor on
\* the token after the first k: a statement of a program, then-block,
\* else-block or while body, and the operand an operator loop parses after
\* it passed the operator.
ProgressAt(tokens, k) ==
    LET p == ParserAt(tokens, k)
    IN  /\ tokens[k + 1].type # "EOF" => Progress(p, parse_statement(p))
        /\ tokens[k + 1].type \in ComparisonTypes =>
               Progress(p, parse_term(Parser_advance(p)))
        /\ tokens[k + 1].type \in {"PLUS", "MINUS"} =>
               /\ Progress(p, parse_factor(Parser_advance(p)))
               /\ Progress(p, parse_unary(p))
        /\ tokens[k + 1].type \in {"MULTIPLY", "DIVIDE"} =>
               Progress(p, parse_unary(Parser_advance(p)))

NestedProgress ==
    (parser # Absent /\ "val" \in DOMAIN parser) =>
        \A k \in 0..(Len(parser.self.tokens) - 1) : ProgressAt(parser.self.tokens, k)

\* C28: tokenize() and parse() end on every input: each iteration of the
\* lexer's main loop, of the parser's statement loops and of its operator
\* loops passes at least one character or token or raises, and the cursors
\* are bounded by the length of the text and of the token list, so a run
\* takes finitely many iterations.
C28_FrontEndTerminates == IterationProgress /\ NestedProgress /\ CursorsBounded

\* parse() has returned a program of two statements, the second a while
\* whose body holds an assignment with a binary operator.
C28_Witness ==
    /\ parser # Absent
    /\ "val" \in DOMAIN parser
    /\ parser.status = "returned"
    /\ Len(parser.val) = 2
    /\ parser.val[2].node = "WhileNode"
    /\ parser.val[2].body # <<>>
    /\ parser.val[2].body[1].expression.node = "BinaryOpNode"


(***************************************************************************)
(* Temporaries of a listing.                                               *)
(***************************************************************************)
\* t followed by the digits of a number.
TemporaryNames(code) == {<<"t">> \o DecimalText(n) : n \in 0..Len(code)}

\* The places a name is an argument at: instruction and argument slot.
UsesOf(code, name) ==
    {<<i, 1>> : i \in {j \in 1..Len(code) : code[j].arg1 = name}}
        \cup {<<i, 2>> : i \in {j \in 1..Len(code) : code[j].arg2 = name}}

ResultsOf(code, name) ==
    {i \in 1..Len(code) : code[i].op \notin JumpOps \cup {LABEL} /\ code[i].result = name}

\* The identifiers of a program: declared, assigned and read.
IdentifiersOf(ast) ==
    {Events(ast.statements)[k].name : k \in 1..Len(Events(ast.statements))}

\* C27: in the listing generate() returns for a program none of whose
\* identifiers is t followed by digits, every temporary that occurs is the
\* result of exactly one instruction and an argument exactly once, of an
\* instruction after the one that computes it.
C27_TemporariesDefinedOnceUsedOnce ==
    (Generated /\ IdentifiersOf(hist.ast) \cap TemporaryNames(hist.out) = {}) =>
        \A t \in TemporaryNames(hist.out) :
            (ResultsOf(hist.out, t) # {} \/ UsesOf(hist.out, t) # {}) =>
                /\ Cardinality(ResultsOf(hist.out, t)) = 1
                /\ Cardinality(UsesOf(hist.out, t)) = 1
                /\ \A d \in ResultsOf(hist.out, t), u \in UsesOf(hist.out, t) : d < u[1]

\* A listing with temporaries of which one is the condition of an IF_FALSE,
\* one the value of an ASSIGN or PRINT and one the second argument of an
\* operator.
C27_Witness ==
    /\ Generated
    /\ Cardinality(TempPositions(hist.out)) >= 3
    /\ \E i, j, k \in 1..Len(hist.out) :
           /\ hist.out[i].op = IF_FALSE /\ hist.out[i].arg1 \in TemporaryNames(hist.out)
           /\ hist.out[j].op \in {ASSIGN, PRINT}
           /\ hist.out[j].arg1 \in TemporaryNames(hist.out)
           /\ hist.out[k].op \notin ControlOps
           /\ hist.out[k].arg2 \in TemporaryNames(hist.out)

====
